---- MODULE Spec2Model ----
(***************************************************************************)
(* A model of the ChocoPy type checker (src/src/type_checker.py) and of    *)
(* the parts of the parser (src/src/parser.py) that decide what trees the  *)
(* checker receives.                                                       *)
(*                                                                         *)
(* Python dictionaries are modelled as sets of entries [k |-> key,         *)
(* v |-> value] holding at most one entry per key.  Python's None (an      *)
(* unset Optional) is the record Null.  A ClassInfo's superclass reference *)
(* is modelled by the superclass's name ("" for None): the registry never  *)
(* rebinds or removes a name, so the name determines the ClassInfo.        *)
(***************************************************************************)
EXTENDS Integers, Sequences, FiniteSets, TLC

VARIABLES
    classes,           \* ChocoPyTypeChecker.classes : Dict[str, ClassInfo]
    functions,         \* ChocoPyTypeChecker.functions : Dict[str, FunctionInfo]
    symbol_table,      \* ChocoPyTypeChecker.symbol_table, as the chain root..current
    current_class,     \* ChocoPyTypeChecker.current_class, by name ("" for None)
    current_function,  \* ChocoPyTypeChecker.current_function, by name ("" for None)
    return_type,       \* ChocoPyTypeChecker.return_type (a Type or Null)
    trace,             \* the inferred_type assignments made so far, in order
    program,           \* the Program handed to check_program
    phase,             \* where check_program stands
    idx,               \* index of the next element of the loop check_program is in
    err,               \* the exception raised, or NoErr
    last,              \* the last direct _declare_class call and its outcome
    compiler,          \* the ChocoPyCompiler driving the phases, and its current call
    lexer              \* a ChocoPyLexer: source, position, tokens, indent_stack, ...

vars == <<classes, functions, symbol_table, current_class, current_function,
          return_type, trace, program, phase, idx, err, last, compiler, lexer>>

----------------------------------------------------------------------------
(* Bounds of the model *)

MaxUserClasses == 2
MaxListDepth == 2

----------------------------------------------------------------------------
(* Python values *)

Null == [k |-> "null"]

(* dictionaries *)
DictHas(d, key) == \E e \in d : e.k = key
DictGet(d, key) == (CHOOSE e \in d : e.k = key).v
DictPut(d, key, val) == {e \in d : e.k # key} \cup {[k |-> key, v |-> val]}
DictKeys(d) == {e.k : e \in d}

----------------------------------------------------------------------------
(* ast_nodes.py: types *)

ClassType(name) == [k |-> "class", classname |-> name]
ListType(elem) == [k |-> "list", element_type |-> elem]

IsClassType(t) == t.k = "class"
IsListType(t) == t.k = "list"

----------------------------------------------------------------------------
(* type_checker.py: errors *)

(* An exception: its class (exc), the fixed text of its message (kind) and
   the names and types the message is formatted with. *)
NoErr == [exc |-> "", kind |-> "", names |-> <<>>, types |-> <<>>]
TypeCheckError(kind, names, types) ==
    [exc |-> "TypeCheckError", kind |-> kind, names |-> names, types |-> types]

----------------------------------------------------------------------------
(* type_checker.py: ClassInfo and the class registry *)

ClassInfo(name, superclass) ==
    [name |-> name, superclass |-> superclass, methods |-> {}, attributes |-> {}]

InitBuiltinClasses ==
    LET c0 == DictPut({}, "object", ClassInfo("object", ""))
        c1 == DictPut(c0, "int", ClassInfo("int", "object"))
        c2 == DictPut(c1, "bool", ClassInfo("bool", "int"))
    IN  DictPut(c2, "str", ClassInfo("str", "object"))

InitBuiltinSymbols ==
    LET s0 == DictPut({}, "print", ClassType("function"))
        s1 == DictPut(s0, "len", ClassType("function"))
    IN  DictPut(s1, "input", ClassType("function"))

(* the name of a ClassInfo's superclass, "" when it has none *)
SuperName(cls, name) == DictGet(cls, name).superclass

RECURSIVE TypesEqual(_, _)
TypesEqual(type1, type2) ==
    IF IsClassType(type1) /\ IsClassType(type2)
    THEN type1.classname = type2.classname
    ELSE IF IsListType(type1) /\ IsListType(type2)
         THEN TypesEqual(type1.element_type, type2.element_type)
         ELSE FALSE

(* the while loop of _is_subtype: current walks the superclass references *)
RECURSIVE WalkReaches(_, _, _)
WalkReaches(cls, current, target) ==
    IF current = "" THEN FALSE
    ELSE IF current = target THEN TRUE
    ELSE WalkReaches(cls, SuperName(cls, current), target)

(* a walk that looks at the class and its direct superclass only *)
IsSubtypeOneStep(cls, subtype, supertype) ==
    \/ TypesEqual(subtype, supertype)
    \/ /\ IsClassType(subtype) /\ IsClassType(supertype)
       /\ DictHas(cls, subtype.classname) /\ DictHas(cls, supertype.classname)
       /\ SuperName(cls, subtype.classname) = supertype.classname

IsSubtype(cls, subtype, supertype) ==
    IF TypesEqual(subtype, supertype) THEN TRUE
    ELSE IF IsClassType(subtype) /\ IsClassType(supertype)
         THEN IF DictHas(cls, subtype.classname) /\ DictHas(cls, supertype.classname)
              THEN WalkReaches(cls, subtype.classname, supertype.classname)
              ELSE FALSE
         ELSE FALSE

(* assignability with source and target exchanged *)
IsAssignableSwapped(cls, source, target) == IsSubtype(cls, target, source)

IsAssignable(cls, source, target) == IsSubtype(cls, source, target)

(* _declare_class without the test of the superclass's registration *)
DeclareClassNoSuperCheck(cls, name, superclass) ==
    IF DictHas(cls, name)
    THEN [ok |-> FALSE, err |-> TypeCheckError("Class already defined", <<name>>, <<>>),
          classes |-> cls]
    ELSE [ok |-> TRUE, err |-> NoErr,
          classes |-> DictPut(cls, name, ClassInfo(name, superclass))]

(* _declare_class(class_def), by the two fields of class_def it reads *)
(* a declaration that replaces a class already registered *)
DeclareClassRedefining(cls, name, superclass) ==
    IF superclass # "object" /\ ~DictHas(cls, superclass)
    THEN [ok |-> FALSE,
          err |-> TypeCheckError("Undefined superclass", <<superclass>>, <<>>),
          classes |-> cls]
    ELSE [ok |-> TRUE, err |-> NoErr,
          classes |-> DictPut(cls, name, ClassInfo(name, superclass))]

DeclareClass(cls, name, superclass) ==
    IF DictHas(cls, name)
    THEN [ok |-> FALSE, err |-> TypeCheckError("Class already defined", <<name>>, <<>>),
          classes |-> cls]
    ELSE IF superclass # "object" /\ ~DictHas(cls, superclass)
         THEN [ok |-> FALSE,
               err |-> TypeCheckError("Undefined superclass", <<superclass>>, <<>>),
               classes |-> cls]
         ELSE [ok |-> TRUE, err |-> NoErr,
               classes |-> DictPut(cls, name, ClassInfo(name, superclass))]

----------------------------------------------------------------------------
(* type_checker.py: SymbolTable.  The chain of tables is a sequence, the root
   first and the current table last; a new table's parent is always the table
   that was current, so a child table is the next element of the sequence. *)

RECURSIVE LookupFrom(_, _, _)
LookupFrom(st, i, name) ==
    IF i = 0 THEN Null
    ELSE IF DictHas(st[i], name) THEN DictGet(st[i], name)
    ELSE LookupFrom(st, i - 1, name)

Lookup(st, name) == LookupFrom(st, Len(st), name)

Define(self, name, type) ==
    [self EXCEPT !.symbol_table[Len(self.symbol_table)] = DictPut(@, name, type)]

PushScope(self) == [self EXCEPT !.symbol_table = Append(@, {})]

(* self.symbol_table = old_symbol_table, old being the table at depth n *)
RestoreScope(self, n) == [self EXCEPT !.symbol_table = SubSeq(@, 1, n)]

(* ClassInfo.get_attribute and ClassInfo.get_method *)
RECURSIVE GetAttribute(_, _, _)
GetAttribute(cls, cname, name) ==
    LET info == DictGet(cls, cname) IN
    IF DictHas(info.attributes, name) THEN DictGet(info.attributes, name)
    ELSE IF info.superclass # "" THEN GetAttribute(cls, info.superclass, name)
    ELSE Null

RECURSIVE GetMethod(_, _, _)
GetMethod(cls, cname, name) ==
    LET info == DictGet(cls, cname) IN
    IF DictHas(info.methods, name) THEN DictGet(info.methods, name)
    ELSE IF info.superclass # "" THEN GetMethod(cls, info.superclass, name)
    ELSE Null

----------------------------------------------------------------------------
(* type_checker.py: results.  A handler returns [ok, err, self, t]: the
   checker's fields after it (self), its return value (t), and, when it
   raises, ok = FALSE and the exception. *)

Ok(self, t) == [ok |-> TRUE, err |-> NoErr, self |-> self, t |-> t]
Raise(self, e) == [ok |-> FALSE, err |-> e, self |-> self, t |-> Null]

(* a call inside a handler: an exception raised by the call leaves the
   handler, otherwise the handler goes on with the call's result *)
Bind(r, F(_)) == IF r.ok THEN F(r) ELSE r

(* try: ... finally: the clause G runs on the checker's fields whether the
   block returned or raised *)
Finally(r, G(_)) == [r EXCEPT !.self = G(r.self)]

RECURSIVE CheckType(_, _)
CheckType(self, type) ==
    IF IsClassType(type)
    THEN IF ~DictHas(self.classes, type.classname)
         THEN Raise(self, TypeCheckError("Undefined type", <<type.classname>>, <<>>))
         ELSE Ok(self, type)
    ELSE IF IsListType(type)
         THEN Bind(CheckType(self, type.element_type), LAMBDA r : Ok(self, ListType(r.t)))
         ELSE Raise(self, TypeCheckError("Unknown type", <<>>, <<>>))

(* the literal kinds: IntegerLiteral, BooleanLiteral, StringLiteral, NoneLiteral *)
CheckLiteral(self, literal) ==
    IF literal.k = "lit" /\ literal.lit = "int" THEN Ok(self, ClassType("int"))
    ELSE IF literal.k = "lit" /\ literal.lit = "bool" THEN Ok(self, ClassType("bool"))
    ELSE IF literal.k = "lit" /\ literal.lit = "str" THEN Ok(self, ClassType("str"))
    ELSE IF literal.k = "lit" /\ literal.lit = "none" THEN Ok(self, ClassType("None"))
    ELSE Raise(self, TypeCheckError("Unknown literal type", <<literal.k>>, <<>>))

CheckIdentifier(self, identifier) ==
    IF Lookup(self.symbol_table, identifier.name) = Null
    THEN Raise(self, TypeCheckError("Undefined variable", <<identifier.name>>, <<>>))
    ELSE Ok(self, Lookup(self.symbol_table, identifier.name))

(* the operator tables of _check_binary_op and _check_unary_op *)
BinaryOpType(cls, op, left_type, right_type) ==
    LET int == ClassType("int")
        bool == ClassType("bool")
    IN
    IF op \in {"+", "-", "*", "//", "%"}
    THEN IF IsSubtype(cls, left_type, int) /\ IsSubtype(cls, right_type, int)
         THEN [ok |-> TRUE, t |-> int, kind |-> ""]
         ELSE [ok |-> FALSE, t |-> Null, kind |-> "Arithmetic operation requires int operands"]
    ELSE IF op \in {"==", "!="} THEN [ok |-> TRUE, t |-> bool, kind |-> ""]
    ELSE IF op \in {"<", "<=", ">", ">="}
    THEN IF IsSubtype(cls, left_type, int) /\ IsSubtype(cls, right_type, int)
         THEN [ok |-> TRUE, t |-> bool, kind |-> ""]
         ELSE [ok |-> FALSE, t |-> Null, kind |-> "Comparison operation requires int operands"]
    ELSE IF op \in {"and", "or"}
    THEN IF IsSubtype(cls, left_type, bool) /\ IsSubtype(cls, right_type, bool)
         THEN [ok |-> TRUE, t |-> bool, kind |-> ""]
         ELSE [ok |-> FALSE, t |-> Null, kind |-> "Logical operation requires bool operands"]
    ELSE IF op = "is" THEN [ok |-> TRUE, t |-> bool, kind |-> ""]
    ELSE [ok |-> FALSE, t |-> Null, kind |-> "Unknown binary operator"]

UnaryOpType(cls, op, operand_type) ==
    IF op = "-"
    THEN IF IsSubtype(cls, operand_type, ClassType("int"))
         THEN [ok |-> TRUE, t |-> ClassType("int"), kind |-> ""]
         ELSE [ok |-> FALSE, t |-> Null, kind |-> "Unary minus requires int operand"]
    ELSE IF op = "not"
    THEN IF IsSubtype(cls, operand_type, ClassType("bool"))
         THEN [ok |-> TRUE, t |-> ClassType("bool"), kind |-> ""]
         ELSE [ok |-> FALSE, t |-> Null, kind |-> "Not operator requires bool operand"]
    ELSE [ok |-> FALSE, t |-> Null, kind |-> "Unknown unary operator"]

(* a common supertype that keeps the then type whenever the two are related *)
IfExprTypeThenBiased(cls, then_type, else_type) ==
    IF TypesEqual(then_type, else_type) THEN then_type
    ELSE IF IsSubtype(cls, then_type, else_type) THEN then_type
    ELSE IF IsSubtype(cls, else_type, then_type) THEN then_type
    ELSE ClassType("object")

(* the common supertype of _check_if_expr *)
IfExprType(cls, then_type, else_type) ==
    IF TypesEqual(then_type, else_type) THEN then_type
    ELSE IF IsSubtype(cls, then_type, else_type) THEN else_type
    ELSE IF IsSubtype(cls, else_type, then_type) THEN then_type
    ELSE ClassType("object")

(* the result type of _check_call_expr once callee and arguments are checked *)
CallResultType(self, function) ==
    IF function.k = "id"
    THEN IF function.name = "len" THEN ClassType("int")
         ELSE IF function.name = "print" THEN ClassType("None")
         ELSE IF function.name = "input" THEN ClassType("str")
         ELSE IF DictHas(self.functions, function.name)
              THEN DictGet(self.functions, function.name).return_type
              ELSE ClassType("object")
    ELSE ClassType("object")

(* the type _check_member_expr finds, or Null *)
MemberType(cls, object_type, member) ==
    IF IsClassType(object_type) /\ DictHas(cls, object_type.classname)
    THEN GetAttribute(cls, object_type.classname, member)
    ELSE Null

(* expr.inferred_type = expr_type of the node at path p *)
Annotate(self, p, type) == [self EXCEPT !.trace = Append(@, [path |-> p, type |-> type])]

RECURSIVE CheckExpression(_, _, _)
RECURSIVE CheckExpressions(_, _, _, _)
RECURSIVE CheckListElements(_, _, _, _, _)

(* for arg in args: self._check_expression(arg), the i-th argument at path p \o <<i>> *)
CheckExpressions(self, es, p, i) ==
    IF i > Len(es) THEN Ok(self, Null)
    ELSE Bind(CheckExpression(self, es[i], p \o <<i>>),
              LAMBDA r : CheckExpressions(r.self, es, p, i + 1))

(* the loop of _check_list_expr over elements[1:], element_type running *)
CheckListElements(self, es, p, i, element_type) ==
    IF i > Len(es) THEN Ok(self, ListType(element_type))
    ELSE Bind(CheckExpression(self, es[i], p \o <<i>>),
              LAMBDA r : CheckListElements(r.self, es, p, i + 1,
                             IF IsAssignable(self.classes, r.t, element_type)
                             THEN element_type ELSE ClassType("object")))

(* return the operator's type, or raise its error *)
OperatorResult(self, b, op) ==
    IF b.ok THEN Ok(self, b.t)
    ELSE IF b.kind \in {"Unknown binary operator", "Unknown unary operator"}
    THEN Raise(self, TypeCheckError(b.kind, <<op>>, <<>>))
    ELSE Raise(self, TypeCheckError(b.kind, <<>>, <<>>))

(* a check that takes the type of the right operand for both operands *)
CheckBinaryOpRightOnly(self, e, p) ==
    Bind(CheckExpression(self, e.left, p \o <<1>>), LAMBDA l :
    Bind(CheckExpression(l.self, e.right, p \o <<2>>), LAMBDA r :
    OperatorResult(r.self, BinaryOpType(self.classes, e.operator, r.t, r.t), e.operator)))

CheckBinaryOp(self, e, p) ==
    Bind(CheckExpression(self, e.left, p \o <<1>>), LAMBDA l :
    Bind(CheckExpression(l.self, e.right, p \o <<2>>), LAMBDA r :
    OperatorResult(r.self, BinaryOpType(self.classes, e.operator, l.t, r.t), e.operator)))

CheckUnaryOp(self, e, p) ==
    Bind(CheckExpression(self, e.operand, p \o <<1>>), LAMBDA o :
    OperatorResult(o.self, UnaryOpType(self.classes, e.operator, o.t), e.operator))

CheckIfExpr(self, e, p) ==
    Bind(CheckExpression(self, e.condition, p \o <<1>>), LAMBDA c :
    Bind(CheckExpression(c.self, e.then_expr, p \o <<2>>), LAMBDA t :
    Bind(CheckExpression(t.self, e.else_expr, p \o <<3>>), LAMBDA f :
    IF ~IsSubtype(self.classes, c.t, ClassType("bool"))
    THEN Raise(f.self, TypeCheckError("Conditional expression condition must be boolean",
                                      <<>>, <<>>))
    ELSE Ok(f.self, IfExprType(self.classes, t.t, f.t)))))

(* a list literal typed by its first element alone *)
CheckListExprFirstOnly(self, e, p) ==
    IF Len(e.elements) = 0 THEN Ok(self, ListType(ClassType("object")))
    ELSE Bind(CheckExpression(self, e.elements[1], p \o <<1>>), LAMBDA r :
         Bind(CheckExpressions(r.self, e.elements, p, 2), LAMBDA rest :
         Ok(rest.self, ListType(r.t))))

CheckListExpr(self, e, p) ==
    IF Len(e.elements) = 0 THEN Ok(self, ListType(ClassType("object")))
    ELSE Bind(CheckExpression(self, e.elements[1], p \o <<1>>),
              LAMBDA r : CheckListElements(r.self, e.elements, p, 2, r.t))

CheckIndexExpr(self, e, p) ==
    Bind(CheckExpression(self, e.list_expr, p \o <<1>>), LAMBDA l :
    Bind(CheckExpression(l.self, e.index, p \o <<2>>), LAMBDA i :
    IF ~IsListType(l.t)
    THEN Raise(i.self, TypeCheckError("Index operation requires list type", <<>>, <<>>))
    ELSE IF ~IsSubtype(self.classes, i.t, ClassType("int"))
    THEN Raise(i.self, TypeCheckError("List index must be int", <<>>, <<>>))
    ELSE Ok(i.self, l.t.element_type)))

(* return attr_type when the lookup found one, else raise *)
MemberResult(self, attr_type, member, object_type) ==
    IF attr_type # Null THEN Ok(self, attr_type)
    ELSE Raise(self, TypeCheckError("No attribute", <<member>>, <<object_type>>))

CheckMemberExpr(self, e, p) ==
    Bind(CheckExpression(self, e.object, p \o <<1>>), LAMBDA o :
    MemberResult(o.self, MemberType(self.classes, o.t, e.member), e.member, o.t))

(* the declared return type of a method found in the receiver's class *)
MethodReturnType(cls, object_type, member) ==
    IF object_type.k = "class" /\ DictHas(cls, object_type.classname)
    THEN LET method == GetMethod(cls, object_type.classname, member)
         IN  IF method # Null /\ method.return_type # Null
             THEN method.return_type ELSE ClassType("object")
    ELSE ClassType("object")

(* a method call typed by the method's declared return type *)
CheckMethodCallExprDeclaredType(self, e, p) ==
    Bind(CheckExpression(self, e.method.object, p \o <<1, 1>>), LAMBDA o :
    Bind(CheckExpressions(o.self, e.args, p \o <<2>>, 1), LAMBDA a :
    Ok(a.self, MethodReturnType(a.self.classes, o.t, e.method.member))))

(* the member node method_call.method (path p \o <<1>>) is not itself checked *)
CheckMethodCallExpr(self, e, p) ==
    Bind(CheckExpression(self, e.method.object, p \o <<1, 1>>), LAMBDA o :
    Bind(CheckExpressions(o.self, e.args, p \o <<2>>, 1), LAMBDA a :
    Ok(a.self, ClassType("object"))))

(* a call that leaves its arguments unchecked *)
CheckCallExprArgsUnchecked(self, e, p) ==
    Bind(CheckExpression(self, e.function, p \o <<1>>), LAMBDA f :
    Ok(f.self, CallResultType(f.self, e.function)))

CheckCallExpr(self, e, p) ==
    Bind(CheckExpression(self, e.function, p \o <<1>>), LAMBDA f :
    Bind(CheckExpressions(f.self, e.args, p \o <<2>>, 1), LAMBDA a :
    Ok(a.self, CallResultType(a.self, e.function))))

(* the isinstance dispatch of _check_expression *)
ExpressionType(self, e, p) ==
    IF e.k = "lit" THEN CheckLiteral(self, e)
    ELSE IF e.k = "id" THEN CheckIdentifier(self, e)
    ELSE IF e.k = "bin" THEN CheckBinaryOp(self, e, p)
    ELSE IF e.k = "un" THEN CheckUnaryOp(self, e, p)
    ELSE IF e.k = "ifexpr" THEN CheckIfExpr(self, e, p)
    ELSE IF e.k = "listexpr" THEN CheckListExpr(self, e, p)
    ELSE IF e.k = "index" THEN CheckIndexExpr(self, e, p)
    ELSE IF e.k = "member" THEN CheckMemberExpr(self, e, p)
    ELSE IF e.k = "mcall" THEN CheckMethodCallExpr(self, e, p)
    ELSE IF e.k = "call" THEN CheckCallExpr(self, e, p)
    ELSE Raise(self, TypeCheckError("Unknown expression type", <<e.k>>, <<>>))

CheckExpression(self, e, p) ==
    Bind(ExpressionType(self, e, p), LAMBDA r : Ok(Annotate(r.self, p, r.t), r.t))

----------------------------------------------------------------------------
(* type_checker.py: statements *)

RECURSIVE CheckStatement(_, _, _)
RECURSIVE CheckStatements(_, _, _, _)
RECURSIVE CheckAssignTargets(_, _, _, _, _)
RECURSIVE CheckElifConditions(_, _, _, _)
RECURSIVE CheckElifBodies(_, _, _, _)

(* for stmt_body in body: self._check_statement(stmt_body) *)
CheckStatements(self, ss, p, i) ==
    IF i > Len(ss) THEN Ok(self, Null)
    ELSE Bind(CheckStatement(self, ss[i], p \o <<i>>),
              LAMBDA r : CheckStatements(r.self, ss, p, i + 1))

(* the loop of _check_assign_stmt over stmt.targets *)
CheckAssignTargets(self, targets, p, i, value_type) ==
    IF i > Len(targets) THEN Ok(self, Null)
    ELSE Bind(CheckExpression(self, targets[i], p \o <<i>>), LAMBDA r :
         IF ~IsAssignable(self.classes, value_type, r.t)
         THEN Raise(r.self, TypeCheckError("Cannot assign", <<>>, <<value_type, r.t>>))
         ELSE CheckAssignTargets(r.self, targets, p, i + 1, value_type))

(* the type last assigned to a node's inferred_type *)
LastType(self) == self.trace[Len(self.trace)].type

(* an assignment that tests assignability against the last target only *)
CheckAssignStmtLastOnly(self, stmt, p) ==
    Bind(CheckExpression(self, stmt.value, p \o <<0>>), LAMBDA v :
    Bind(CheckExpressions(v.self, stmt.targets, p, 1), LAMBDA ts :
    IF ~IsAssignable(self.classes, v.t, LastType(ts.self))
    THEN Raise(ts.self, TypeCheckError("Cannot assign", <<>>, <<v.t, LastType(ts.self)>>))
    ELSE ts))

(* the value is the node at p \o <<0>>, the i-th target the node at p \o <<i>> *)
CheckAssignStmt(self, stmt, p) ==
    Bind(CheckExpression(self, stmt.value, p \o <<0>>),
         LAMBDA v : CheckAssignTargets(v.self, stmt.targets, p, 1, v.t))

CheckElifConditions(self, cs, p, i) ==
    IF i > Len(cs) THEN Ok(self, Null)
    ELSE Bind(CheckExpression(self, cs[i], p \o <<i>>), LAMBDA r :
         IF ~IsSubtype(self.classes, r.t, ClassType("bool"))
         THEN Raise(r.self, TypeCheckError("Elif condition must be boolean", <<>>, <<>>))
         ELSE CheckElifConditions(r.self, cs, p, i + 1))

CheckElifBodies(self, bs, p, i) ==
    IF i > Len(bs) THEN Ok(self, Null)
    ELSE Bind(CheckStatements(self, bs[i], p \o <<i>>, 1),
              LAMBDA r : CheckElifBodies(r.self, bs, p, i + 1))

(* an if statement that types its elif conditions without testing them *)
CheckIfStmtElifUntested(self, stmt, p) ==
    Bind(CheckExpression(self, stmt.condition, p \o <<1>>), LAMBDA c :
    IF ~IsSubtype(self.classes, c.t, ClassType("bool"))
    THEN Raise(c.self, TypeCheckError("If condition must be boolean", <<>>, <<>>)) ELSE
    Bind(CheckStatements(c.self, stmt.then_body, p \o <<2>>, 1), LAMBDA t :
    Bind(CheckExpressions(t.self, stmt.elif_conditions, p \o <<3>>, 1), LAMBDA ec :
    Bind(CheckElifBodies(ec.self, stmt.elif_bodies, p \o <<4>>, 1), LAMBDA eb :
    CheckStatements(eb.self, stmt.else_body, p \o <<5>>, 1)))))

(* condition 1, then_body 2, elif_conditions 3, elif_bodies 4, else_body 5;
   an absent else_body is the empty sequence *)
CheckIfStmt(self, stmt, p) ==
    Bind(CheckExpression(self, stmt.condition, p \o <<1>>), LAMBDA c :
    IF ~IsSubtype(self.classes, c.t, ClassType("bool"))
    THEN Raise(c.self, TypeCheckError("If condition must be boolean", <<>>, <<>>)) ELSE
    Bind(CheckStatements(c.self, stmt.then_body, p \o <<2>>, 1), LAMBDA t :
    Bind(CheckElifConditions(t.self, stmt.elif_conditions, p \o <<3>>, 1), LAMBDA ec :
    Bind(CheckElifBodies(ec.self, stmt.elif_bodies, p \o <<4>>, 1), LAMBDA eb :
    CheckStatements(eb.self, stmt.else_body, p \o <<5>>, 1)))))

CheckWhileStmt(self, stmt, p) ==
    Bind(CheckExpression(self, stmt.condition, p \o <<1>>), LAMBDA c :
    IF ~IsSubtype(self.classes, c.t, ClassType("bool"))
    THEN Raise(c.self, TypeCheckError("While condition must be boolean", <<>>, <<>>))
    ELSE CheckStatements(c.self, stmt.body, p \o <<2>>, 1))

(* a for statement that binds the loop variable in the current table *)
CheckForStmtNoScope(self, stmt, p) ==
    Bind(CheckExpression(self, stmt.iterable, p \o <<1>>), LAMBDA it :
    IF ~IsListType(it.t)
    THEN Raise(it.self, TypeCheckError("For loop requires list type", <<>>, <<>>)) ELSE
    CheckStatements(Define(it.self, stmt.identifier, it.t.element_type),
                    stmt.body, p \o <<2>>, 1))

(* try/finally: the table is restored whether the body checks or raises *)
CheckForStmt(self, stmt, p) ==
    Bind(CheckExpression(self, stmt.iterable, p \o <<1>>), LAMBDA it :
    IF ~IsListType(it.t)
    THEN Raise(it.self, TypeCheckError("For loop requires list type", <<>>, <<>>)) ELSE
    Finally(CheckStatements(Define(PushScope(it.self), stmt.identifier, it.t.element_type),
                            stmt.body, p \o <<2>>, 1),
            LAMBDA s : RestoreScope(s, Len(it.self.symbol_table))))

(* a bare return has the type None; nothing is compared while return_type is
   unset *)
CheckReturnStmt(self, stmt, p) ==
    Bind(IF stmt.value # Null THEN CheckExpression(self, stmt.value, p \o <<1>>)
         ELSE Ok(self, ClassType("None")), LAMBDA v :
    IF self.return_type # Null /\ ~IsAssignable(self.classes, v.t, self.return_type)
    THEN Raise(v.self, TypeCheckError("Cannot return", <<>>, <<v.t, self.return_type>>))
    ELSE Ok(v.self, Null))

CheckStatement(self, stmt, p) ==
    IF stmt.k = "expr" THEN
        Bind(CheckExpression(self, stmt.expr, p \o <<1>>), LAMBDA r : Ok(r.self, Null))
    ELSE IF stmt.k = "assign" THEN CheckAssignStmt(self, stmt, p)
    ELSE IF stmt.k = "if" THEN CheckIfStmt(self, stmt, p)
    ELSE IF stmt.k = "while" THEN CheckWhileStmt(self, stmt, p)
    ELSE IF stmt.k = "for" THEN CheckForStmt(self, stmt, p)
    ELSE IF stmt.k = "return" THEN CheckReturnStmt(self, stmt, p)
    ELSE IF stmt.k = "pass" THEN Ok(self, Null)
    ELSE Raise(self, TypeCheckError("Unknown statement type", <<stmt.k>>, <<>>))

----------------------------------------------------------------------------
(* type_checker.py: declarations *)

CheckVarDef(self, var_def) ==
    Bind(CheckType(self, var_def.var.type), LAMBDA vt :
    Bind(CheckLiteral(self, var_def.value), LAMBDA lt :
    IF ~IsAssignable(self.classes, lt.t, vt.t)
    THEN Raise(self, TypeCheckError("Cannot assign to variable", <<>>, <<lt.t, vt.t>>))
    ELSE Ok(Define(self, var_def.var.identifier, vt.t), Null)))

(* [self._check_type(param.type) for param in func_def.params] *)
RECURSIVE CheckParamTypes(_, _, _)
CheckParamTypes(self, params, i) ==
    IF i > Len(params) THEN Ok(self, Null)
    ELSE Bind(CheckType(self, params[i].type),
              LAMBDA r : CheckParamTypes(self, params, i + 1))

FunctionInfo(name, params, rtype) ==
    [name |-> name, params |-> [i \in 1..Len(params) |-> params[i].type],
     return_type |-> rtype]

(* self._check_type(func_def.return_type) if func_def.return_type else ClassType("None") *)
DeclaredReturnType(self, func_def) ==
    IF func_def.return_type # Null THEN CheckType(self, func_def.return_type)
    ELSE Ok(self, ClassType("None"))

(* the annotations validated, then self.functions[func_def.name] = FunctionInfo(...) *)
RegisterFunction(self, func_def) ==
    Bind(CheckParamTypes(self, func_def.params, 1), LAMBDA ps :
    Bind(DeclaredReturnType(self, func_def), LAMBDA rt :
    Ok([self EXCEPT !.functions =
           DictPut(@, func_def.name, FunctionInfo(func_def.name, func_def.params, rt.t))],
       Null)))

(* a declaration that keeps the function's name out of the symbol table *)
DeclareFunctionNoSymbol(self, func_def) == RegisterFunction(self, func_def)

(* the name is defined before the annotations are validated *)
DeclareFunction(self, func_def) ==
    RegisterFunction(Define(self, func_def.name, ClassType("function")), func_def)

(* for param in func_def.params: define(param.identifier, _check_type(param.type)) *)
RECURSIVE BindParams(_, _, _)
BindParams(self, params, i) ==
    IF i > Len(params) THEN Ok(self, Null)
    ELSE Bind(CheckType(self, params[i].type),
              LAMBDA r : BindParams(Define(self, params[i].identifier, r.t), params, i + 1))

RECURSIVE CheckFuncDef(_, _, _)
RECURSIVE CheckFuncDecls(_, _, _, _)

(* the declarations of a function body: VarDef and FuncDef are checked, global
   and nonlocal declarations are passed over *)
CheckFuncDecls(self, ds, p, i) ==
    IF i > Len(ds) THEN Ok(self, Null)
    ELSE Bind(IF ds[i].k = "vardef" THEN CheckVarDef(self, ds[i])
              ELSE IF ds[i].k = "funcdef" THEN CheckFuncDef(self, ds[i], p \o <<i>>)
              ELSE Ok(self, Null),
              LAMBDA r : CheckFuncDecls(r.self, ds, p, i + 1))

(* the finally clause of _check_func_def *)
FuncDefFinally(self, old) ==
    [RestoreScope(self, old) EXCEPT !.current_function = "", !.return_type = Null]

(* the try block of _check_func_def and its finally clause: parameters,
   declarations at p \o <<1, i>>, statements at p \o <<2, i>> *)
FuncDefBody(self, func_def, p, rtype) ==
    Finally(Bind(BindParams(PushScope([self EXCEPT !.return_type = rtype]),
                            func_def.params, 1), LAMBDA ps :
            Bind(CheckFuncDecls(ps.self, func_def.declarations, p \o <<1>>, 1), LAMBDA ds :
            CheckStatements(ds.self, func_def.statements, p \o <<2>>, 1))),
            LAMBDA s : FuncDefFinally(s, Len(self.symbol_table)))

(* the return type is validated before the try, so a failure there skips the
   finally clause *)
CheckFuncDef(self, func_def, p) ==
    Bind(DeclaredReturnType([self EXCEPT !.current_function = func_def.name], func_def),
         LAMBDA rt : FuncDefBody(rt.self, func_def, p, rt.t))

(* class_info.attributes[identifier] = var_type *)
SetAttribute(self, cname, identifier, var_type) ==
    [self EXCEPT !.classes = DictPut(@, cname,
        [DictGet(self.classes, cname) EXCEPT
            !.attributes = DictPut(@, identifier, var_type)])]

(* class_info.methods[decl.name] = decl *)
SetMethod(self, cname, decl) ==
    [self EXCEPT !.classes = DictPut(@, cname,
        [DictGet(self.classes, cname) EXCEPT !.methods = DictPut(@, decl.name, decl)])]

RECURSIVE CheckClassDecls(_, _, _, _, _)
CheckClassDecls(self, cname, ds, p, i) ==
    IF i > Len(ds) THEN Ok(self, Null)
    ELSE Bind(IF ds[i].k = "vardef" THEN
                  Bind(CheckType(self, ds[i].var.type), LAMBDA vt :
                  CheckVarDef(SetAttribute(self, cname, ds[i].var.identifier, vt.t), ds[i]))
              ELSE IF ds[i].k = "funcdef" THEN
                  CheckFuncDef(SetMethod(self, cname, ds[i]), ds[i], p \o <<i>>)
              ELSE Ok(self, Null),
              LAMBDA r : CheckClassDecls(r.self, cname, ds, p, i + 1))

(* declarations at p \o <<1, i>> *)
CheckClassDef(self, class_def, p) ==
    Finally(CheckClassDecls(PushScope([self EXCEPT !.current_class = class_def.name]),
                            class_def.name, class_def.declarations, p \o <<1>>, 1),
            LAMBDA s : [RestoreScope(s, Len(self.symbol_table)) EXCEPT !.current_class = ""])

----------------------------------------------------------------------------
(* The class registry under arbitrary sequences of _declare_class calls *)

BuiltinClassNames == {"object", "int", "bool", "str"}
UserClassPool == <<"A", "B", "C", "D", "E">>
UserClassNames == {UserClassPool[i] : i \in 1..MaxUserClasses}
RegNames == BuiltinClassNames \cup UserClassNames

EmptyProgram == [declarations |-> <<>>, statements |-> <<>>]
NoCall == [name |-> "", superclass |-> "", ok |-> TRUE, err |-> NoErr]

(* no ChocoPyCompiler: the parser and check_program are called on their own *)
NoCompiler ==
    [caller |-> "", runs |-> 0, lexes |-> TRUE, generated |-> FALSE, written |-> FALSE]

(* no lexer is at work *)
NoLexer ==
    [source |-> <<>>, position |-> 0, tokens |-> <<>>, indent_stack |-> <<0>>,
     at_line_start |-> TRUE, status |-> "idle", err |-> NoErr]

InitChecker ==
    /\ classes = InitBuiltinClasses
    /\ functions = {}
    /\ symbol_table = <<InitBuiltinSymbols>>
    /\ current_class = ""
    /\ current_function = ""
    /\ return_type = Null
    /\ trace = <<>>
    /\ err = NoErr

InitReg ==
    /\ InitChecker
    /\ program = EmptyProgram
    /\ phase = "registry"
    /\ idx = 0
    /\ last = NoCall
    /\ compiler = NoCompiler
    /\ lexer = NoLexer

DeclareClassCall ==
    \E name \in RegNames, superclass \in RegNames :
        LET r == DeclareClass(classes, name, superclass)
        IN  /\ classes' = r.classes
            /\ last' = [name |-> name, superclass |-> superclass, ok |-> r.ok, err |-> r.err]
            /\ UNCHANGED <<functions, symbol_table, current_class, current_function,
                           return_type, trace, program, phase, idx, err, compiler, lexer>>

NextReg == DeclareClassCall

SpecReg == InitReg /\ [][NextReg]_vars

----------------------------------------------------------------------------
(* ast_nodes.py: the nodes of a program.  An absent Optional field is Null;
   an absent else_body is the empty sequence. *)

Lit(kind) == [k |-> "lit", lit |-> kind]
Id(name) == [k |-> "id", name |-> name]
ListExpr(elements) == [k |-> "listexpr", elements |-> elements]
IndexExpr(list_expr, index) == [k |-> "index", list_expr |-> list_expr, index |-> index]
MemberExpr(object, member) == [k |-> "member", object |-> object, member |-> member]
CallExpr(function, args) == [k |-> "call", function |-> function, args |-> args]

BinaryOp(left, operator, right) ==
    [k |-> "bin", left |-> left, operator |-> operator, right |-> right]
UnaryOp(operator, operand) == [k |-> "un", operator |-> operator, operand |-> operand]
IfExpr(condition, then_expr, else_expr) ==
    [k |-> "ifexpr", condition |-> condition, then_expr |-> then_expr,
     else_expr |-> else_expr]
MethodCallExpr(method, args) == [k |-> "mcall", method |-> method, args |-> args]

ExprStmt(expr) == [k |-> "expr", expr |-> expr]
IfStmt(condition, then_body, elif_conditions, elif_bodies, else_body) ==
    [k |-> "if", condition |-> condition, then_body |-> then_body,
     elif_conditions |-> elif_conditions, elif_bodies |-> elif_bodies,
     else_body |-> else_body]
WhileStmt(condition, body) == [k |-> "while", condition |-> condition, body |-> body]
AssignStmt(targets, value) == [k |-> "assign", targets |-> targets, value |-> value]
ForStmt(identifier, iterable, body) ==
    [k |-> "for", identifier |-> identifier, iterable |-> iterable, body |-> body]
ReturnStmt(value) == [k |-> "return", value |-> value]
PassStmt == [k |-> "pass"]

TypedVar(identifier, type) == [identifier |-> identifier, type |-> type]
VarDef(identifier, type, value) ==
    [k |-> "vardef", var |-> TypedVar(identifier, type), value |-> value]
FuncDef(name, params, rtype, declarations, statements) ==
    [k |-> "funcdef", name |-> name, params |-> params, return_type |-> rtype,
     declarations |-> declarations, statements |-> statements]
ClassDef(name, superclass, declarations) ==
    [k |-> "classdef", name |-> name, superclass |-> superclass,
     declarations |-> declarations]
Program(declarations, statements) ==
    [declarations |-> declarations, statements |-> statements]

----------------------------------------------------------------------------
(* parser.py: which source programs the parser turns into a tree.  A source
   program is written as the tree its text denotes, the initialiser of a
   variable definition being whatever expression follows the "=". *)

ParseError(kind) == [exc |-> "ParseError", kind |-> kind, names |-> <<>>, types |-> <<>>]

(* _parse_literal: the tokens INTEGER, TRUE, FALSE, NONE, STRING and IDSTRING
   start a literal; anything else raises *)
ParseLiteral(value) ==
    IF value.k = "lit" THEN NoErr ELSE ParseError("Expected literal")

RECURSIVE ParseDecls(_, _)
ParseDecl(d) ==
    IF d.k = "vardef" THEN ParseLiteral(d.value)
    ELSE IF d.k = "classdef" THEN ParseDecls(d.declarations, 1)
    ELSE IF d.k = "funcdef" THEN
        LET e == ParseDecls(d.declarations, 1) IN
        IF e # NoErr THEN e
        ELSE IF Len(d.statements) = 0
             THEN ParseError("Function body must contain at least one statement")
             ELSE NoErr
    ELSE NoErr

ParseDecls(ds, i) ==
    IF i > Len(ds) THEN NoErr
    ELSE LET e == ParseDecl(ds[i]) IN IF e # NoErr THEN e ELSE ParseDecls(ds, i + 1)

(* _parse_assignment_or_expr on the source es[1] = es[2] = ... = es[n]: the
   statement it returns and the expressions it left unread.  After the first
   "=" the next token starts an expression, so the loop takes that expression
   as the value and returns at once. *)
ParseAssignmentOrExpr(es) ==
    IF Len(es) = 1 THEN [stmt |-> ExprStmt(es[1]), rest |-> <<>>]
    ELSE [stmt |-> AssignStmt(<<es[1]>>, es[2]), rest |-> SubSeq(es, 3, Len(es))]

(* the else branch of _parse_statement: the simple statement, then
   _consume(NEWLINE), which meets "=" when expressions are left *)
ParseAssignmentLine(es) ==
    IF ParseAssignmentOrExpr(es).rest # <<>>
    THEN [err |-> ParseError("Expected NEWLINE"), stmt |-> Null]
    ELSE [err |-> NoErr, stmt |-> ParseAssignmentOrExpr(es).stmt]

(* _parse_statement: _parse_assignment_or_expr takes what follows the first
   "=" as the value, so the second "=" of a chained assignment meets
   _consume(NEWLINE) *)
ParseStatement(stmt) ==
    IF stmt.k = "assign" /\ Len(stmt.targets) >= 1
    THEN ParseAssignmentLine(stmt.targets \o <<stmt.value>>).err
    ELSE NoErr

RECURSIVE ParseStatements(_, _)
ParseStatements(ss, i) ==
    IF i > Len(ss) THEN NoErr
    ELSE IF ParseStatement(ss[i]) # NoErr THEN ParseStatement(ss[i])
    ELSE ParseStatements(ss, i + 1)

(* _parse_program, as far as it can reject the programs of this model *)
ParseProgram(prog) ==
    IF ParseDecls(prog.declarations, 1) # NoErr THEN ParseDecls(prog.declarations, 1)
    ELSE ParseStatements(prog.statements, 1)

----------------------------------------------------------------------------
(* type_checker.py: check_program, one iteration of its loops per step *)

Self ==
    [classes |-> classes, functions |-> functions, symbol_table |-> symbol_table,
     current_class |-> current_class, current_function |-> current_function,
     return_type |-> return_type, trace |-> trace]

LoopOf(prog, ph) == IF ph = "statements" THEN prog.statements ELSE prog.declarations

NextPhase(ph) ==
    IF ph = "declare" THEN "check" ELSE IF ph = "check" THEN "statements" ELSE "done"

(* the position of the next loop iteration at or after element i of phase ph,
   "done" when check_program returns *)
RECURSIVE Position(_, _, _)
Position(prog, ph, i) ==
    IF ph = "done" THEN [phase |-> "done", idx |-> 0]
    ELSE IF i <= Len(LoopOf(prog, ph)) THEN [phase |-> ph, idx |-> i]
    ELSE Position(prog, NextPhase(ph), 1)

(* the checker after _declare_class returned or raised *)
DeclaredClass(self, r) ==
    [ok |-> r.ok, err |-> r.err, self |-> [self EXCEPT !.classes = r.classes], t |-> Null]

(* first pass: the handler check_program calls for a declaration *)
DeclareStep(self, decl) ==
    IF decl.k = "classdef" THEN
        DeclaredClass(self, DeclareClass(self.classes, decl.name, decl.superclass))
    ELSE IF decl.k = "funcdef" THEN DeclareFunction(self, decl)
    ELSE IF decl.k = "vardef" THEN CheckVarDef(self, decl)
    ELSE Ok(self, Null)

(* second pass; declaration i is the node at <<1, i>> *)
CheckStep(self, decl, i) ==
    IF decl.k = "classdef" THEN CheckClassDef(self, decl, <<1, i>>)
    ELSE IF decl.k = "funcdef" THEN CheckFuncDef(self, decl, <<1, i>>)
    ELSE Ok(self, Null)

(* one iteration: statement i is the node at <<2, i>> *)
Iteration(self, prog, ph, i) ==
    IF ph = "declare" THEN DeclareStep(self, prog.declarations[i])
    ELSE IF ph = "check" THEN CheckStep(self, prog.declarations[i], i)
    ELSE CheckStatement(self, prog.statements[i], <<2, i>>)

(* the whole of check_program from a position on: TRUE when it returns *)
RECURSIVE RunFrom(_, _, _)
RunFrom(self, prog, pos) ==
    IF pos.phase = "done" THEN TRUE
    ELSE LET r == Iteration(self, prog, pos.phase, pos.idx)
         IN  IF r.ok THEN RunFrom(r.self, prog, Position(prog, pos.phase, pos.idx + 1))
             ELSE FALSE

InitSelf ==
    [classes |-> InitBuiltinClasses, functions |-> {},
     symbol_table |-> <<InitBuiltinSymbols>>, current_class |-> "",
     current_function |-> "", return_type |-> Null, trace |-> <<>>]

CheckProgramAccepts(prog) == RunFrom(InitSelf, prog, Position(prog, "declare", 1))

Running == phase \in {"declare", "check", "statements"}
Current == LoopOf(program, phase)[idx]

(* an effect that notes the exception and goes on with the next iteration *)
EffectCollecting(r) ==
    /\ classes' = r.self.classes
    /\ functions' = r.self.functions
    /\ symbol_table' = r.self.symbol_table
    /\ current_class' = r.self.current_class
    /\ current_function' = r.self.current_function
    /\ return_type' = r.self.return_type
    /\ trace' = r.self.trace
    /\ phase' = Position(program, phase, idx + 1).phase
    /\ idx' = Position(program, phase, idx + 1).idx
    /\ err' = IF r.ok THEN err ELSE r.err
    /\ UNCHANGED <<program, last, compiler, lexer>>

(* the step's effect: the checker's fields as the handler left them, and
   either the next position or the exception leaving check_program *)
Effect(r) ==
    /\ classes' = r.self.classes
    /\ functions' = r.self.functions
    /\ symbol_table' = r.self.symbol_table
    /\ current_class' = r.self.current_class
    /\ current_function' = r.self.current_function
    /\ return_type' = r.self.return_type
    /\ trace' = r.self.trace
    /\ IF r.ok
       THEN /\ phase' = Position(program, phase, idx + 1).phase
            /\ idx' = Position(program, phase, idx + 1).idx
            /\ err' = NoErr
       ELSE /\ phase' = "failed"
            /\ idx' = idx
            /\ err' = r.err
    /\ UNCHANGED <<program, last, compiler, lexer>>

(* compile_string's phase 2 on the source, then the start of check_program *)
Parse ==
    /\ phase = "parse"
    /\ LET e == ParseProgram(program) IN
       IF e = NoErr
       THEN /\ phase' = Position(program, "declare", 1).phase
            /\ idx' = Position(program, "declare", 1).idx
            /\ err' = NoErr
       ELSE /\ phase' = "failed"
            /\ idx' = 0
            /\ err' = e
    /\ UNCHANGED <<classes, functions, symbol_table, current_class, current_function,
                   return_type, trace, program, last, compiler, lexer>>

DeclareClassDecl ==
    /\ phase = "declare" /\ Current.k = "classdef"
    /\ Effect(Iteration(Self, program, phase, idx))

DeclareFunctionDecl ==
    /\ phase = "declare" /\ Current.k = "funcdef"
    /\ Effect(Iteration(Self, program, phase, idx))

CheckVarDefDecl ==
    /\ phase = "declare" /\ Current.k = "vardef"
    /\ Effect(Iteration(Self, program, phase, idx))

CheckClassDefDecl ==
    /\ phase = "check" /\ Current.k = "classdef"
    /\ Effect(Iteration(Self, program, phase, idx))

CheckFuncDefDecl ==
    /\ phase = "check" /\ Current.k = "funcdef"
    /\ Effect(Iteration(Self, program, phase, idx))

(* the second pass passes over a variable definition *)
PassOverVarDef ==
    /\ phase = "check" /\ Current.k = "vardef"
    /\ Effect(Iteration(Self, program, phase, idx))

CheckStatementTop ==
    /\ phase = "statements"
    /\ Effect(Iteration(Self, program, phase, idx))

Next ==
    \/ Parse
    \/ DeclareClassDecl
    \/ DeclareFunctionDecl
    \/ CheckVarDefDecl
    \/ CheckClassDefDecl
    \/ CheckFuncDefDecl
    \/ PassOverVarDef
    \/ CheckStatementTop

----------------------------------------------------------------------------
(* The programs check_program is run on *)

MaxTargets == 2

TInt == ClassType("int")
TBool == ClassType("bool")
TStr == ClassType("str")
TObject == ClassType("object")
TNone == ClassType("None")

(* a literal of the given built-in type *)
LitOf(type) ==
    IF type = TInt THEN Lit("int") ELSE IF type = TBool THEN Lit("bool")
    ELSE IF type = TStr THEN Lit("str") ELSE Lit("int")

(* the sequences over S of length 1..n *)
RECURSIVE SeqsUpTo(_, _)
SeqsUpTo(S, n) ==
    IF n = 0 THEN {}
    ELSE LET T == SeqsUpTo(S, n - 1)
         IN  {<<x>> : x \in S} \cup T \cup {Append(t, x) : t \in T, x \in S}

(* the orderings of the elements of a finite set *)
RECURSIVE Orderings(_)
Orderings(S) ==
    IF S = {} THEN {<<>>}
    ELSE UNION {{<<x>> \o t : t \in Orderings(S \ {x})} : x \in S}

(* x: int = 5 and y: T = <literal>, then t1 = ... = tn = value *)
AssignPrograms ==
    {Program(<<VarDef("x", TInt, Lit("int")), VarDef("y", type, LitOf(type))>>,
             <<AssignStmt(targets, value)>>) :
        type \in {TInt, TBool, TStr, TObject},
        targets \in SeqsUpTo({Id("x"), Id("y"), Id("u")}, MaxTargets),
        value \in {Lit("int"), Lit("str"), Lit("bool"), Id("x"), Id("u")}}

(* def f(): callee() and def g() -> R: return <literal>, in both orders,
   then f() *)
FunctionG(rtype) ==
    FuncDef("g", <<>>, rtype, <<>>,
            <<IF rtype = Null THEN ReturnStmt(Null) ELSE ReturnStmt(LitOf(rtype))>>)
FunctionF(callee) ==
    FuncDef("f", <<>>, Null, <<>>, <<ExprStmt(CallExpr(Id(callee), <<Lit("int")>>))>>)
ForwardCallPrograms ==
    {Program(decls, <<ExprStmt(CallExpr(Id("f"), <<>>))>>) :
        decls \in UNION {Orderings({FunctionF(callee), FunctionG(rtype)}) :
                            callee \in {"f", "g"}, rtype \in {Null, TInt, TBool, TStr}}}

(* class A(object), class B(A), def f(p: A) -> B and x: T = 1 in every order *)
ClassA == ClassDef("A", "object", <<>>)
ClassB == ClassDef("B", "A", <<>>)
ForwardClassDecls ==
    {ClassA, ClassB,
     FuncDef("f", <<TypedVar("p", ClassType("A"))>>, Null, <<>>, <<PassStmt>>),
     FuncDef("h", <<>>, ClassType("A"), <<>>, <<PassStmt>>),
     VarDef("x", TInt, Lit("int"))}
ForwardClassPrograms ==
    {Program(decls, <<>>) :
        decls \in UNION {Orderings(S) : S \in {T \in SUBSET ForwardClassDecls :
                                                  Cardinality(T) \in {2, 3}}}}

(* def f() -> R, with or without a nested def g() -> int, returning a literal;
   as a top-level function or as a method of class A *)
NestedG(lit) == FuncDef("g", <<>>, TInt, <<>>, <<ReturnStmt(lit)>>)
ReturningF(rtype, nested, value) ==
    FuncDef("f", <<>>, rtype, nested, <<ReturnStmt(value)>>)
ReturnFunctions ==
    {ReturningF(rtype, nested, value) :
        rtype \in {Null, TInt, TStr},
        nested \in {<<>>, <<NestedG(Lit("int"))>>, <<NestedG(Lit("str"))>>},
        value \in {Null, Lit("int"), Lit("str"), Lit("bool")}}
ReturnPrograms ==
    {Program(<<f>>, <<>>) : f \in ReturnFunctions}
    \cup {Program(<<ClassDef("A", "object", <<f>>)>>, <<>>) : f \in ReturnFunctions}

(* [x: int = 1], then for v in <iterable>: <body>, then w *)
ForBodies(v) ==
    {<<ExprStmt(Id(v))>>, <<ExprStmt(CallExpr(Id("print"), <<Id(v)>>))>>,
     <<ExprStmt(Id("u"))>>,
     <<ForStmt("y", ListExpr(<<Lit("bool")>>), <<ExprStmt(Id("y"))>>), ExprStmt(Id(v))>>}
ForPrograms ==
    {Program(decls, <<ForStmt(v, iterable, body), ExprStmt(w)>>) :
        decls \in {<<>>, <<VarDef("x", TInt, Lit("int"))>>},
        v \in {"x", "y"},
        iterable \in {ListExpr(<<Lit("int"), Lit("int"), Lit("int")>>),
                      ListExpr(<<Lit("str")>>), Id("x"), Lit("str")},
        body \in ForBodies("x") \cup ForBodies("y"),
        w \in {Id("x"), Id("y"), CallExpr(Id("print"), <<Id("y")>>)}}

(* z: [T] = <initialiser>, then z[0] *)
ListInitPrograms ==
    {Program(<<VarDef("z", ListType(type), value)>>,
             <<ExprStmt(IndexExpr(Id("z"), Lit("int")))>>) :
        type \in {TInt, TObject},
        value \in {ListExpr(<<>>), ListExpr(<<Lit("int")>>), Lit("none")}}

(* class A(object) with x: int = 0 and a method m reading self.<a>, in both
   orders of the two; class B(A) with y: str = "" and possibly its own x;
   def f(p: T) reading p.<b>; f after A or after B *)
MethodM(a) ==
    FuncDef("m", <<TypedVar("self", ClassType("A"))>>, Null, <<>>,
            <<ExprStmt(MemberExpr(Id("self"), a))>>)
ReaderF(type, b) ==
    FuncDef("f", <<TypedVar("p", type)>>, Null, <<>>, <<ExprStmt(MemberExpr(Id("p"), b))>>)
MemberClassA ==
    {ClassDef("A", "object", ds) :
        ds \in UNION {Orderings({VarDef("x", TInt, Lit("int")), MethodM(a)}) :
                         a \in {"x", "y"}}}
MemberClassB ==
    {ClassDef("B", "A", <<VarDef("y", TStr, Lit("str"))>>),
     ClassDef("B", "A", <<VarDef("y", TStr, Lit("str")), VarDef("x", TStr, Lit("str"))>>)}
MemberPrograms ==
    UNION {{Program(<<a, b, f>>, <<>>), Program(<<a, f, b>>, <<>>)} :
              a \in MemberClassA, b \in MemberClassB,
              f \in {ReaderF(type, m) :
                        type \in {ClassType("A"), ClassType("B"), TInt,
                                  ListType(ClassType("A"))},
                        m \in {"x", "y", "z"}}}

(* class A(object) holding x: int = 0 and a method m whose body is a bare
   identifier, in both orders of the two; with or without a top-level x *)
BareMethod(name) ==
    FuncDef("m", <<TypedVar("self", ClassType("A"))>>, Null, <<>>, <<ExprStmt(Id(name))>>)
AttrScopePrograms ==
    {Program(top \o <<ClassDef("A", "object", ds)>>, <<>>) :
        top \in {<<>>, <<VarDef("x", TStr, Lit("str"))>>},
        ds \in UNION {Orderings({VarDef("x", TInt, Lit("int")), BareMethod(name)}) :
                         name \in {"x", "self", "w"}}}

(* def f(a: T1, b: T2): a <op> b and def f(a: T1): <op> a, for every operator
   token of the lexer and one that is none *)
BinaryOperators ==
    {"+", "-", "*", "//", "%", "==", "!=", "<", "<=", ">", ">=", "and", "or", "is", "**"}
UnaryOperators == {"-", "not", "+"}
OperandTypes == {TInt, TBool, TStr, TObject, ListType(TInt)}
OperatorPrograms ==
    {Program(<<FuncDef("f", <<TypedVar("a", t1), TypedVar("b", t2)>>, Null, <<>>,
                       <<ExprStmt(BinaryOp(Id("a"), op, Id("b")))>>)>>, <<>>) :
        t1 \in OperandTypes, t2 \in OperandTypes, op \in BinaryOperators}
    \cup {Program(<<FuncDef("f", <<TypedVar("a", t1)>>, Null, <<>>,
                            <<ExprStmt(UnaryOp(op, Id("a")))>>)>>, <<>>) :
             t1 \in OperandTypes, op \in UnaryOperators}

(* if and while statements over conditions of type bool, int and str, with
   up to MaxElifs elif branches, alone and nested in one another *)
MaxElifs == 2
Conditions == {Lit("bool"), Lit("int"), Lit("str"), BinaryOp(Lit("int"), "<", Lit("int"))}
PassBodies(n) == [i \in 1..n |-> <<PassStmt>>]
ConditionStatements ==
    {IfStmt(c, <<PassStmt>>, <<>>, <<>>, <<>>) : c \in Conditions}
    \cup {IfStmt(c, <<PassStmt>>, ec, PassBodies(Len(ec)), <<PassStmt>>) :
             c \in Conditions, ec \in SeqsUpTo(Conditions, MaxElifs)}
    \cup {WhileStmt(c, <<PassStmt>>) : c \in Conditions}
    \cup {WhileStmt(Lit("bool"), <<IfStmt(c, <<PassStmt>>, <<>>, <<>>, <<>>)>>) :
             c \in Conditions}
    \cup {IfStmt(Lit("bool"), <<PassStmt>>, <<Lit("bool")>>,
                 <<<<IfStmt(c, <<PassStmt>>, <<>>, <<>>, <<>>)>>>>,
                 <<WhileStmt(d, <<PassStmt>>)>>) : c \in Conditions, d \in Conditions}
ConditionPrograms == {Program(<<>>, <<stmt>>) : stmt \in ConditionStatements}

(* classes A, B(A) and C(A), and a function whose body is the conditional
   expression p if c else q over parameters of every pair of branch types *)
ClassC == ClassDef("C", "A", <<>>)
BranchTypes ==
    {TInt, TBool, TStr, TObject, ClassType("A"), ClassType("B"), ClassType("C"),
     ListType(TInt), ListType(TBool), ListType(ClassType("A")), ListType(ClassType("B"))}
ConditionTypes == {TBool, TInt, TObject}
IfExprFunction(then_type, else_type, condition_type) ==
    FuncDef("f", <<TypedVar("p", then_type), TypedVar("q", else_type),
                   TypedVar("c", condition_type)>>, Null, <<>>,
            <<ExprStmt(IfExpr(Id("c"), Id("p"), Id("q")))>>)
IfExprPrograms ==
    {Program(<<ClassA, ClassB, ClassC, IfExprFunction(t1, t2, tc)>>, <<>>) :
        t1 \in BranchTypes, t2 \in BranchTypes, tc \in ConditionTypes}

(* list literals of up to MaxElements elements as expression statements *)
MaxElements == 3
ElementExprs ==
    {Lit("int"), Lit("bool"), Lit("str"), Lit("none"), ListExpr(<<Lit("int")>>)}
ListLiteralPrograms ==
    {Program(<<>>, <<ExprStmt(ListExpr(es))>>) : es \in SeqsUpTo(ElementExprs, MaxElements)}

(* calls as expression statements: callees len, print, input, the functions
   f -> int, g (unannotated) and h -> str, the variable x, the undefined u and
   a literal; up to MaxArgs arguments, of which u fails to check *)
MaxArgs == 2
CallDecls ==
    <<VarDef("x", TInt, Lit("int")),
      FuncDef("f", <<TypedVar("a", TInt)>>, TInt, <<>>,
              <<ReturnStmt(BinaryOp(Id("a"), "+", Lit("int")))>>),
      FuncDef("g", <<>>, Null, <<>>, <<PassStmt>>),
      FuncDef("h", <<>>, TStr, <<>>, <<ReturnStmt(Lit("str"))>>)>>
Callees ==
    {Id("len"), Id("print"), Id("input"), Id("f"), Id("g"), Id("h"), Id("x"), Id("u"),
     Lit("int")}
ArgExprs == {Lit("int"), Lit("str"), Id("x"), Id("u")}
CallPrograms ==
    {Program(CallDecls, <<ExprStmt(CallExpr(c, args))>>) :
        c \in Callees, args \in SeqsUpTo(ArgExprs, MaxArgs)}

(* method calls in a function f(p: A, x: int), where class A declares
   m(self: A) -> int: receivers p, x, a literal and the undefined u; members
   m and one that no class has; up to MaxArgs arguments *)
MethodClassA ==
    ClassDef("A", "object",
             <<FuncDef("m", <<TypedVar("self", ClassType("A"))>>, TInt, <<>>,
                       <<ReturnStmt(Lit("int"))>>)>>)
Receivers == {Id("p"), Id("x"), Lit("str"), Id("u")}
MethodArgExprs == {Lit("int"), Lit("str"), Id("u")}
MethodCaller(call) ==
    FuncDef("f", <<TypedVar("p", ClassType("A")), TypedVar("x", TInt)>>, Null, <<>>,
            <<ExprStmt(call)>>)
MethodCallPrograms ==
    {Program(<<MethodClassA, MethodCaller(MethodCallExpr(MemberExpr(r, m), args))>>, <<>>) :
        r \in Receivers, m \in {"m", "n"}, args \in SeqsUpTo(MethodArgExprs, MaxArgs)}

(* function definitions with no statement at all, as trees: at top level, as
   a method and nested in a function *)
EmptyBodyFunctions ==
    {FuncDef("f", params, rtype, <<>>, <<>>) :
        params \in {<<>>, <<TypedVar("a", TInt)>>}, rtype \in {Null, TInt}}
EmptyBodyPrograms ==
    {Program(<<f>>, <<>>) : f \in EmptyBodyFunctions}
    \cup {Program(<<ClassDef("A", "object", <<f>>)>>, <<>>) : f \in EmptyBodyFunctions}
    \cup {Program(<<FuncDef("g", <<>>, Null, <<f>>, <<PassStmt>>)>>, <<>>) :
             f \in EmptyBodyFunctions}

(* programs with up to five rule violations at once: def f reads name1 (check
   pass), y: int = literal2 and class A(superclass3) (declaration pass), then
   the statements name4, if condition5: 1 and 1 *)
FailFastPrograms ==
    {Program(<<FuncDef("f", <<>>, Null, <<>>, <<ExprStmt(Id(name1))>>),
               VarDef("y", TInt, Lit(literal2)),
               ClassDef("A", superclass3, <<>>)>>,
             <<ExprStmt(Id(name4)),
               IfStmt(Lit(condition5), <<ExprStmt(Lit("int"))>>, <<>>, <<>>, <<>>),
               ExprStmt(Lit("int"))>>) :
        name1 \in {"y", "u1"}, literal2 \in {"int", "str"}, superclass3 \in {"object", "Z"},
        name4 \in {"y", "u4"}, condition5 \in {"bool", "int"}}

(* classes A and B(A), then v: C = None for C one of them *)
NoneInitPrograms ==
    {Program(<<ClassA, ClassB, VarDef("v", ClassType(c), Lit("none"))>>, <<>>) :
        c \in {"A", "B"}}

(* a method and a nested function whose return type is absent, int or the
   undefined Z, with a for loop whose body reads the loop variable or an
   undefined name *)
ScopedFunction(name, params, rtype, read) ==
    FuncDef(name, params, rtype, <<>>,
            <<ForStmt("i", ListExpr(<<Lit("int")>>), <<ExprStmt(Id(read))>>)>>)
ScopePrograms ==
    {Program(<<ClassDef("A", "object",
                        <<ScopedFunction("m", <<TypedVar("self", ClassType("A"))>>,
                                         rtype, read)>>)>>, <<>>) :
        rtype \in {Null, TInt, ClassType("Z")}, read \in {"i", "u"}}
    \cup {Program(<<FuncDef("f", <<>>, Null, <<ScopedFunction("g", <<>>, rtype, read)>>,
                            <<PassStmt>>)>>, <<>>) :
             rtype \in {Null, TInt, ClassType("Z")}, read \in {"i", "u"}}

(* def f(): def g() -> R: return <literal>, and g() as f's statement *)
NestedCallPrograms ==
    {Program(<<FuncDef("f", <<>>, Null,
                       <<FuncDef("g", <<>>, rtype, <<>>, <<ReturnStmt(LitOf(rtype))>>)>>,
                       <<ExprStmt(CallExpr(Id("g"), <<>>))>>)>>, <<>>) :
        rtype \in {TInt, TStr, TBool}}

(* classes A and B(A), and def f(v: T): v = C() for a class C at or below T *)
ConstructionPrograms ==
    {Program(<<ClassA, ClassB,
               FuncDef("f", <<TypedVar("v", pair[1])>>, Null, <<>>,
                       <<AssignStmt(<<Id("v")>>, CallExpr(Id(pair[2]), <<>>))>>)>>, <<>>) :
        pair \in {<<ClassType("A"), "A">>, <<ClassType("A"), "B">>,
                  <<ClassType("B"), "B">>, <<TObject, "A">>, <<TObject, "B">>}}

Programs ==
    ConstructionPrograms \cup NestedCallPrograms \cup ScopePrograms \cup NoneInitPrograms \cup FailFastPrograms \cup EmptyBodyPrograms \cup MethodCallPrograms \cup CallPrograms \cup ListLiteralPrograms \cup IfExprPrograms \cup ConditionPrograms \cup OperatorPrograms \cup AttrScopePrograms \cup AssignPrograms \cup ForwardCallPrograms \cup ForwardClassPrograms
    \cup ReturnPrograms \cup ForPrograms \cup ListInitPrograms \cup MemberPrograms

(* a program arrives as source through compile_string, or as a tree handed
   to check_program *)
Init ==
    /\ InitChecker
    /\ program \in Programs
    /\ \/ /\ phase = "parse"
          /\ idx = 0
       \/ /\ phase = Position(program, "declare", 1).phase
          /\ idx = Position(program, "declare", 1).idx
    /\ last = NoCall
    /\ compiler = NoCompiler
    /\ lexer = NoLexer

Spec == Init /\ [][Next]_vars

----------------------------------------------------------------------------
(* compiler.py: compile_file and compile_string calls on one ChocoPyCompiler *)

MaxCompilations == 2

LexerError == [exc |-> "LexerError", kind |-> "", names |-> <<>>, types |-> <<>>]
GeneratorError == [exc |-> "Exception", kind |-> "generate", names |-> <<>>, types |-> <<>>]

(* the sources compiled: a class; a variable, a function and a call; an
   ill-typed assignment; an initialiser the parser rejects; a statement
   reading a name it does not declare *)
CompilePrograms ==
    {Program(<<ClassDef("A", "object", <<>>)>>, <<>>),
     Program(<<VarDef("x", TInt, Lit("int")),
               FuncDef("f", <<>>, Null, <<>>, <<PassStmt>>)>>,
             <<ExprStmt(CallExpr(Id("f"), <<>>))>>),
     Program(<<VarDef("x", TInt, Lit("int"))>>, <<AssignStmt(<<Id("x")>>, Lit("str"))>>),
     Program(<<VarDef("z", ListType(TInt), ListExpr(<<>>))>>, <<>>),
     Program(<<>>, <<ExprStmt(Id("x"))>>)}

(* compile_string or compile_file is called with a source *)
StartCompilation(n) ==
    /\ program' \in CompilePrograms
    /\ \E caller \in {"compile_string", "compile_file"}, lexes \in BOOLEAN :
          compiler' = [caller |-> caller, runs |-> n, lexes |-> lexes,
                       generated |-> FALSE, written |-> FALSE]
    /\ phase' = "lex"
    /\ idx' = 0
    /\ err' = NoErr
    /\ trace' = <<>>

(* ChocoPyCompiler(), then the first call *)
InitCompile ==
    /\ InitChecker
    /\ program \in CompilePrograms
    /\ \E caller \in {"compile_string", "compile_file"}, lexes \in BOOLEAN :
          compiler = [caller |-> caller, runs |-> 1, lexes |-> lexes,
                      generated |-> FALSE, written |-> FALSE]
    /\ phase = "lex"
    /\ idx = 0
    /\ last = NoCall
    /\ lexer = NoLexer

(* phase 1: tokenize returns the tokens or raises LexerError *)
Lex ==
    /\ phase = "lex"
    /\ IF compiler.lexes
       THEN phase' = "parse" /\ err' = NoErr
       ELSE phase' = "failed" /\ err' = LexerError
    /\ UNCHANGED <<classes, functions, symbol_table, current_class, current_function,
                   return_type, trace, program, idx, last, compiler, lexer>>

(* phase 4: self.code_generator.generate(typed_ast) returns the assembly or
   raises *)
Generate ==
    /\ phase = "done"
    /\ compiler.caller # ""
    /\ compiler' = [compiler EXCEPT !.generated = TRUE]
    /\ \/ phase' = "generated" /\ err' = NoErr
       \/ phase' = "failed" /\ err' = GeneratorError
    /\ UNCHANGED <<classes, functions, symbol_table, current_class, current_function,
                   return_type, trace, program, idx, last, lexer>>

(* an output step that writes whatever compile_string left behind *)
WriteOutputAlways ==
    /\ phase \in {"generated", "failed"}
    /\ compiler.caller = "compile_file"
    /\ ~compiler.written
    /\ compiler' = [compiler EXCEPT !.written = TRUE]
    /\ phase' = IF phase = "generated" THEN "written" ELSE phase
    /\ UNCHANGED <<classes, functions, symbol_table, current_class, current_function,
                   return_type, trace, program, idx, err, last, lexer>>

(* compile_file after compile_string returned: open(output_file, 'w') and write *)
WriteOutput ==
    /\ phase = "generated"
    /\ compiler.caller = "compile_file"
    /\ compiler' = [compiler EXCEPT !.written = TRUE]
    /\ phase' = "written"
    /\ UNCHANGED <<classes, functions, symbol_table, current_class, current_function,
                   return_type, trace, program, idx, err, last, lexer>>

(* the next call on the same ChocoPyCompiler: after compile_string returned or
   raised to its caller, or after compile_file wrote its output (a failing
   compile_file ends the process); self.type_checker is the same object *)
CompileAgain ==
    /\ compiler.runs < MaxCompilations
    /\ \/ compiler.caller = "compile_string" /\ phase \in {"generated", "failed"}
       \/ compiler.caller = "compile_file" /\ phase = "written"
    /\ StartCompilation(compiler.runs + 1)
    /\ UNCHANGED <<classes, functions, symbol_table, current_class, current_function,
                   return_type, last, lexer>>

NextCompile ==
    \/ Lex
    \/ Next
    \/ Generate
    \/ WriteOutput
    \/ CompileAgain

SpecCompile == InitCompile /\ [][NextCompile]_vars

----------------------------------------------------------------------------
(* lexer.py: ChocoPyLexer.tokenize, one iteration of its loop per step.  A
   source is a sequence of characters, position counts the characters read,
   tokens holds the token types appended so far. *)

CharAt(source, position) ==
    IF position >= Len(source) THEN "end" ELSE source[position + 1]

Raised(self, message) ==
    [self EXCEPT !.status = "failed", !.err = [LexerError EXCEPT !.kind = message]]

(* the loop of _handle_line_start over leading blanks and tabs *)
RECURSIVE IndentOf(_, _, _)
IndentOf(source, position, indent_level) ==
    IF CharAt(source, position) = " "
    THEN IndentOf(source, position + 1, indent_level + 1)
    ELSE IF CharAt(source, position) = "\t"
    THEN IndentOf(source, position + 1, (indent_level \div 8 + 1) * 8)
    ELSE [position |-> position, indent_level |-> indent_level]

(* while len(indent_stack) > 1 and indent_stack[-1] > indent_level: pop, DEDENT *)
RECURSIVE Dedent(_, _)
Dedent(self, indent_level) ==
    IF Len(self.indent_stack) > 1 /\ self.indent_stack[Len(self.indent_stack)] > indent_level
    THEN Dedent([self EXCEPT !.indent_stack = SubSeq(@, 1, Len(@) - 1),
                             !.tokens = Append(@, "DEDENT")], indent_level)
    ELSE self

(* the dedent branch: pop, then the level must be the one on top *)
DedentTo(self, indent_level) ==
    IF Dedent(self, indent_level).indent_stack[Len(Dedent(self, indent_level).indent_stack)]
          # indent_level
    THEN Raised(Dedent(self, indent_level), "Indentation error")
    ELSE [Dedent(self, indent_level) EXCEPT !.at_line_start = FALSE]

(* _handle_line_start once the leading blanks are read: w is where they end *)
LineStartAt(self, w) ==
    IF CharAt(self.source, w.position) \in {"end", "\n", "#"}
    THEN [self EXCEPT !.position = w.position, !.at_line_start = FALSE]
    ELSE IF w.indent_level > self.indent_stack[Len(self.indent_stack)]
    THEN [self EXCEPT !.position = w.position, !.at_line_start = FALSE,
                      !.indent_stack = Append(@, w.indent_level),
                      !.tokens = Append(@, "INDENT")]
    ELSE IF w.indent_level < self.indent_stack[Len(self.indent_stack)]
    THEN DedentTo([self EXCEPT !.position = w.position], w.indent_level)
    ELSE [self EXCEPT !.position = w.position, !.at_line_start = FALSE]

HandleLineStart(self) ==
    IF ~self.at_line_start THEN self
    ELSE LineStartAt(self, IndentOf(self.source, self.position, 0))

(* the position after the longest run of characters of a set *)
RECURSIVE RunEnd(_, _, _)
RunEnd(source, position, chars) ==
    IF CharAt(source, position) \in chars THEN RunEnd(source, position + 1, chars)
    ELSE position

Characters == {" ", "\t", "\n", "#", "a", "=", "$"}

SkipWhitespace(self) ==
    [self EXCEPT !.position = RunEnd(self.source, @, {" ", "\t"}), !.at_line_start = FALSE]

SkipComment(self) ==
    [self EXCEPT !.position = RunEnd(self.source, @, Characters \ {"\n"}),
                 !.at_line_start = FALSE]

(* _advance over the newline, then NEWLINE unless the last token is NEWLINE,
   INDENT or DEDENT or there is none *)
HandleNewline(self) ==
    [self EXCEPT !.position = @ + 1, !.at_line_start = TRUE,
                 !.tokens = IF self.tokens # <<>>
                               /\ self.tokens[Len(self.tokens)]
                                     \notin {"NEWLINE", "INDENT", "DEDENT"}
                            THEN Append(@, "NEWLINE") ELSE @]

HandleIdentifier(self) ==
    [self EXCEPT !.position = RunEnd(self.source, @, {"a"}), !.at_line_start = FALSE,
                 !.tokens = Append(@, "ID")]

(* of the operators, == and = are in the alphabet *)
HandleOperator(self) ==
    IF CharAt(self.source, self.position) = "="
          /\ CharAt(self.source, self.position + 1) = "="
    THEN [self EXCEPT !.position = @ + 2, !.at_line_start = FALSE,
                      !.tokens = Append(@, "EQUAL")]
    ELSE IF CharAt(self.source, self.position) = "="
    THEN [self EXCEPT !.position = @ + 1, !.at_line_start = FALSE,
                      !.tokens = Append(@, "ASSIGN")]
    ELSE Raised(self, "Unexpected character")

(* a lexer that leaves the open indentation levels open at the end *)
HandleEndOfFileNoDedent(self) == self

(* while len(indent_stack) > 1: pop, DEDENT *)
RECURSIVE HandleEndOfFile(_)
HandleEndOfFile(self) ==
    IF Len(self.indent_stack) > 1
    THEN HandleEndOfFile([self EXCEPT !.indent_stack = SubSeq(@, 1, Len(@) - 1),
                                      !.tokens = Append(@, "DEDENT")])
    ELSE self

(* sources of up to MaxLines lines, each indented by up to MaxIndent blanks:
   a blank line, a comment, the line a = and a line that starts with a
   character no token starts with, and the line a= behind a tab; lines are
   separated by newlines, so a last blank line makes the source end with a
   newline *)
MaxLines == 3
MaxIndent == 2
Blanks(n) == [i \in 1..n |-> " "]
LineContents == {<<>>, <<"#", "a">>, <<"a", " ", "=">>, <<"$">>}
SourceLines ==
    {Blanks(n) \o c : n \in 0..MaxIndent, c \in LineContents} \cup {<<"\t", "a", "=">>}

RECURSIVE JoinLines(_, _)
JoinLines(lines, i) ==
    IF i > Len(lines) THEN <<>>
    ELSE IF i = Len(lines) THEN lines[i]
    ELSE lines[i] \o <<"\n">> \o JoinLines(lines, i + 1)

Sources == {JoinLines(lines, 1) : lines \in SeqsUpTo(SourceLines, MaxLines)}

(* ChocoPyLexer(source) *)
InitLexer ==
    /\ InitChecker
    /\ program = EmptyProgram
    /\ phase = "lex"
    /\ idx = 0
    /\ last = NoCall
    /\ compiler = NoCompiler
    /\ \E source \in Sources :
          lexer = [source |-> source, position |-> 0, tokens |-> <<>>,
                   indent_stack |-> <<0>>, at_line_start |-> TRUE,
                   status |-> "scanning", err |-> NoErr]

CheckerUnchanged ==
    UNCHANGED <<classes, functions, symbol_table, current_class, current_function,
                return_type, trace, program, phase, idx, err, last, compiler>>

(* the loop goes on: tokenize has neither returned nor raised, and characters
   are left *)
Scanning == lexer.status = "scanning" /\ lexer.position < Len(lexer.source)

(* the head of an iteration at the start of a line *)
LineStart ==
    /\ Scanning /\ lexer.at_line_start
    /\ lexer' = HandleLineStart(lexer)
    /\ CheckerUnchanged

(* the dispatch of an iteration on the current character *)
Whitespace ==
    /\ Scanning /\ ~lexer.at_line_start
    /\ CharAt(lexer.source, lexer.position) \in {" ", "\t"}
    /\ lexer' = SkipWhitespace(lexer)
    /\ CheckerUnchanged

Comment ==
    /\ Scanning /\ ~lexer.at_line_start
    /\ CharAt(lexer.source, lexer.position) = "#"
    /\ lexer' = SkipComment(lexer)
    /\ CheckerUnchanged

Newline ==
    /\ Scanning /\ ~lexer.at_line_start
    /\ CharAt(lexer.source, lexer.position) = "\n"
    /\ lexer' = HandleNewline(lexer)
    /\ CheckerUnchanged

Identifier ==
    /\ Scanning /\ ~lexer.at_line_start
    /\ CharAt(lexer.source, lexer.position) = "a"
    /\ lexer' = HandleIdentifier(lexer)
    /\ CheckerUnchanged

Operator ==
    /\ Scanning /\ ~lexer.at_line_start
    /\ CharAt(lexer.source, lexer.position) \in {"=", "$"}
    /\ lexer' = HandleOperator(lexer)
    /\ CheckerUnchanged

(* the loop has ended: _handle_end_of_file, the EOF token, return *)
EndOfFile ==
    /\ lexer.status = "scanning"
    /\ lexer.position >= Len(lexer.source)
    /\ lexer' = [HandleEndOfFile(lexer) EXCEPT !.tokens = Append(@, "EOF"),
                                               !.status = "returned"]
    /\ CheckerUnchanged

NextLexer ==
    \/ LineStart
    \/ Whitespace
    \/ Comment
    \/ Newline
    \/ Identifier
    \/ Operator
    \/ EndOfFile

SpecLexer == InitLexer /\ [][NextLexer]_vars

(* the types _check_type accepts, to list depth n *)
RECURSIVE ValidTypes(_, _)
ValidTypes(cls, n) ==
    IF n = 0 THEN {ClassType(c) : c \in DictKeys(cls)}
    ELSE LET T == ValidTypes(cls, n - 1) IN T \cup {ListType(t) : t \in T}

(* the proper ancestors of a class, by the superclass entries of the registry *)
RECURSIVE AncestorsUpTo(_, _, _)
AncestorsUpTo(cls, S, n) ==
    IF n = 0 THEN S
    ELSE AncestorsUpTo(cls, S \cup ({SuperName(cls, c) : c \in S} \ {""}), n - 1)
ProperAncestors(cls, c) ==
    IF SuperName(cls, c) = "" THEN {}
    ELSE AncestorsUpTo(cls, {SuperName(cls, c)}, Cardinality(cls))

\* C1: over the registered classes _is_subtype is reflexive and transitive.
C1_SubtypeReflTrans ==
    \A a \in DictKeys(classes) :
        /\ IsSubtype(classes, ClassType(a), ClassType(a))
        /\ \A b \in DictKeys(classes), c \in DictKeys(classes) :
              (IsSubtype(classes, ClassType(a), ClassType(b))
                  /\ IsSubtype(classes, ClassType(b), ClassType(c)))
              => IsSubtype(classes, ClassType(a), ClassType(c))

(* a chain of two user classes below bool has been declared: the walk from
   the lower one passes four superclass references *)
C1_Witness ==
    \E a \in UserClassNames, b \in UserClassNames :
        /\ a # b
        /\ DictHas(classes, a) /\ DictHas(classes, b)
        /\ SuperName(classes, a) = b /\ SuperName(classes, b) = "bool"
        /\ IsSubtype(classes, ClassType(a), ClassType("object"))
        /\ ~IsSubtype(classes, ClassType(a), ClassType("str"))

\* C2: _is_assignable(T, T) holds for every valid type T; a proper descendant
\* is assignable to its ancestor and never the reverse; between two list
\* types assignability requires equal element types.
C2_Assignability ==
    LET T == ValidTypes(classes, MaxListDepth) IN
    /\ \A t \in T : IsAssignable(classes, t, t)
    /\ \A a \in DictKeys(classes) : \A b \in ProperAncestors(classes, a) :
          /\ IsAssignable(classes, ClassType(a), ClassType(b))
          /\ ~IsAssignable(classes, ClassType(b), ClassType(a))
    /\ \A s \in T, t \in T :
          (IsListType(s) /\ IsListType(t) /\ IsAssignable(classes, s, t))
          => s.element_type = t.element_type

(* a user class with a user superclass, so that [sub] and [super] are distinct
   list types over related classes *)
C2_Witness ==
    \E a \in UserClassNames, b \in UserClassNames :
        /\ DictHas(classes, a) /\ DictHas(classes, b)
        /\ b \in ProperAncestors(classes, a)
        /\ IsAssignable(classes, ClassType(a), ClassType(b))
        /\ ~IsAssignable(classes, ListType(ClassType(a)), ListType(ClassType(b)))

\* C3: _declare_class succeeds iff the name is not yet registered and the
\* superclass is; a failure raises and leaves the registry unchanged; a success
\* adds exactly one entry, whose superclass is the registered class named.
C3_DeclareClass ==
    [][ (last' # last \/ classes' # classes) =>
          LET n == last'.name
              s == last'.superclass
          IN  /\ last'.ok <=> (~DictHas(classes, n) /\ DictHas(classes, s))
              /\ ~last'.ok => (classes' = classes /\ last'.err.kind # "")
              /\ last'.ok =>
                    /\ classes' = classes \cup {[k |-> n, v |-> ClassInfo(n, s)]}
                    /\ Cardinality(classes') = Cardinality(classes) + 1
                    /\ DictHas(classes, DictGet(classes', n).superclass) ]_vars

(* a class was declared with a user class as superclass, and a later call failed *)
C3_Witness ==
    /\ ~last.ok
    /\ last.name \in UserClassNames
    /\ \E a \in UserClassNames : DictHas(classes, a) /\ SuperName(classes, a) \in UserClassNames

----------------------------------------------------------------------------
(* Reading a run of check_program *)

(* a loop iteration of check_program has run *)
Stepped == phase' # phase \/ idx' # idx

(* the inferred_type assignments made by the step, in order *)
NewEvents == SubSeq(trace', Len(trace) + 1, Len(trace'))

(* the types assigned to the inferred_type of the node at a path *)
TypesAt(tr, path) == {tr[i].type : i \in {j \in 1..Len(tr) : tr[j].path = path}}

MinOf(S) == CHOOSE i \in S : \A j \in S : i <= j

(* the index of the top-level declaration of a name, 0 when there is none *)
DeclIndex(prog, name) ==
    IF \E i \in 1..Len(prog.declarations) :
          prog.declarations[i].k \in {"funcdef", "classdef"} /\ prog.declarations[i].name = name
    THEN MinOf({i \in 1..Len(prog.declarations) :
                   prog.declarations[i].k \in {"funcdef", "classdef"}
                   /\ prog.declarations[i].name = name})
    ELSE 0

(* the declared return type of a function definition, None when unannotated *)
ReturnTypeOf(func_def) ==
    IF func_def.return_type # Null THEN func_def.return_type ELSE ClassType("None")

\* C4: _check_assign_stmt checks the value once and first, then the targets
\* in order, and raises "Cannot assign" with the value type and the target type
\* at the first target the value type is not assignable to; after x: int = 5
\* the statement x = "hi" fails naming str and int.
C4_AssignValueThenTargets ==
    [][ (phase = "statements" /\ Current.k = "assign" /\ Stepped) =>
          LET p == <<2, idx>>
              stmt == Current
              ev == NewEvents
              n == Len(stmt.targets)
              TargetType(i) == Lookup(symbol_table, stmt.targets[i].name)
          IN  /\ ev = <<>> =>
                    /\ stmt.value.k = "id"
                    /\ Lookup(symbol_table, stmt.value.name) = Null
                    /\ phase' = "failed"
                    /\ err'.kind = "Undefined variable"
              /\ ev # <<>> =>
                    /\ ev[1].path = p \o <<0>>
                    /\ stmt.value.k = "lit" => ev[1].type = CheckLiteral(Self, stmt.value).t
                    /\ stmt.value.k = "id" => ev[1].type = Lookup(symbol_table, stmt.value.name)
                    /\ \A i \in 2..Len(ev) :
                          ev[i].path = p \o <<i - 1>> /\ ev[i].type = TargetType(i - 1)
                    /\ LET vt == ev[1].type
                           bad == {i \in 1..n : \/ TargetType(i) = Null
                                                \/ ~IsAssignable(classes, vt, TargetType(i))}
                       IN  IF bad = {}
                           THEN phase' # "failed" /\ Len(ev) = n + 1
                           ELSE /\ phase' = "failed"
                                /\ IF TargetType(MinOf(bad)) = Null
                                   THEN /\ Len(ev) = MinOf(bad)
                                        /\ err'.kind = "Undefined variable"
                                   ELSE /\ Len(ev) = MinOf(bad) + 1
                                        /\ err' = TypeCheckError("Cannot assign", <<>>,
                                                     <<vt, TargetType(MinOf(bad))>>)
              /\ (stmt.targets = <<Id("x")>> /\ stmt.value = Lit("str")) =>
                    /\ phase' = "failed"
                    /\ err' = TypeCheckError("Cannot assign", <<>>, <<TStr, TInt>>) ]_vars

(* y = x = "hi" with y: str and x: int: the value and both targets were
   checked and the second target raised *)
C4_Witness ==
    /\ phase = "failed"
    /\ Len(program.statements) = 1
    /\ program.statements[1].k = "assign"
    /\ program.statements[1].targets = <<Id("y"), Id("x")>>
    /\ program.statements[1].value = Lit("str")
    /\ Len(trace) = 3
    /\ err = TypeCheckError("Cannot assign", <<>>, <<TStr, TInt>>)

(* a top-level function whose first statement calls a top-level function *)
CallsTopLevel(prog, i) ==
    /\ prog.declarations[i].k = "funcdef"
    /\ prog.declarations[i].statements[1].k = "expr"
    /\ prog.declarations[i].statements[1].expr.k = "call"
    /\ prog.declarations[i].statements[1].expr.function.k = "id"
    /\ DeclIndex(prog, prog.declarations[i].statements[1].expr.function.name) # 0

(* the definition of the function called by the first statement of declaration i *)
CalleeOf(prog, i) ==
    prog.declarations[DeclIndex(prog, prog.declarations[i].statements[1].expr.function.name)]

\* C5: a top-level function that calls a top-level function declared later,
\* or itself, checks without error, and the call is annotated with the declared
\* return type of the function called.
C5_ForwardCall ==
    program \in ForwardCallPrograms =>
        /\ phase # "failed"
        /\ phase = "done" =>
              \A i \in 1..Len(program.declarations) :
                  CallsTopLevel(program, i) =>
                      TypesAt(trace, <<1, i, 2, 1, 1>>) = {ReturnTypeOf(CalleeOf(program, i))}

(* f is declared before the g it calls, g returns int, and the run is over *)
C5_Witness ==
    /\ phase = "done"
    /\ Len(program.declarations) = 2
    /\ CallsTopLevel(program, 1)
    /\ DeclIndex(program, program.declarations[1].statements[1].expr.function.name) = 2
    /\ program.declarations[2].return_type = TInt
    /\ TypesAt(trace, <<1, 1, 2, 1, 1>>) = {TInt}

(* the class a type annotation names *)
RECURSIVE BaseClass(_)
BaseClass(type) == IF IsListType(type) THEN BaseClass(type.element_type) ELSE type.classname

(* the classes named by the annotations of a declaration *)
AnnotatedClasses(decl) ==
    IF decl.k = "funcdef"
    THEN {BaseClass(decl.params[i].type) : i \in 1..Len(decl.params)}
         \cup (IF decl.return_type # Null THEN {BaseClass(decl.return_type)} ELSE {})
    ELSE IF decl.k = "vardef" THEN {BaseClass(decl.var.type)}
    ELSE {}

(* every class an annotation names is built in or declared somewhere in the
   program, and every superclass is built in or declared before its subclass *)
SuperclassesFirst(prog) ==
    \A i \in 1..Len(prog.declarations) :
        /\ \A c \in AnnotatedClasses(prog.declarations[i]) :
              c \in BuiltinClassNames \/ DeclIndex(prog, c) # 0
        /\ prog.declarations[i].k = "classdef" =>
              \/ prog.declarations[i].superclass \in BuiltinClassNames
              \/ DeclIndex(prog, prog.declarations[i].superclass) \in 1..(i - 1)

DeclSet(prog) == {prog.declarations[i] : i \in 1..Len(prog.declarations)}

\* C6: for every ordering of the top-level declarations in which each
\* superclass precedes its subclasses check_program gives the same outcome, and
\* a function or variable whose annotation names a class declared later is
\* accepted.
C6_ForwardReferences ==
    (program \in ForwardClassPrograms /\ SuperclassesFirst(program)) =>
        /\ phase # "failed"
        /\ \A ds \in Orderings(DeclSet(program)) :
              SuperclassesFirst(Program(ds, program.statements)) =>
                  CheckProgramAccepts(Program(ds, program.statements))
                      = CheckProgramAccepts(program)

(* the type a return statement hands to _is_assignable *)
ReturnedType(stmt) ==
    IF stmt.value # Null THEN CheckLiteral(Self, stmt.value).t ELSE ClassType("None")

(* every return statement of the function, and of the functions nested in it,
   returns a type assignable to the return type of the function enclosing it *)
RECURSIVE ReturnsFit(_)
ReturnsFit(func_def) ==
    /\ \A j \in 1..Len(func_def.statements) :
          func_def.statements[j].k = "return" =>
              IsAssignable(classes, ReturnedType(func_def.statements[j]),
                           ReturnTypeOf(func_def))
    /\ \A j \in 1..Len(func_def.declarations) :
          func_def.declarations[j].k = "funcdef" => ReturnsFit(func_def.declarations[j])

(* the top-level functions and the methods of the top-level classes *)
FunctionsOf(prog) ==
    {d \in DeclSet(prog) : d.k = "funcdef"}
    \cup UNION {{c.declarations[j] : j \in {i \in 1..Len(c.declarations) :
                                              c.declarations[i].k = "funcdef"}} :
                   c \in {d \in DeclSet(prog) : d.k = "classdef"}}

\* C7: check_program returns only if every return statement of every function
\* and method, also of one that contains nested function definitions, returns a
\* type assignable to the declared return type of the function enclosing it.
C7_ReturnsChecked ==
    phase = "done" => \A f \in FunctionsOf(program) : ReturnsFit(f)

(* top-level names bound by the declaration pass *)
DeclaredNames(prog) ==
    {d.var.identifier : d \in {e \in DeclSet(prog) : e.k = "vardef"}}
    \cup {d.name : d \in {e \in DeclSet(prog) : e.k = "funcdef"}}

(* the declared type of a top-level variable *)
DeclaredType(prog, name) ==
    (CHOOSE d \in DeclSet(prog) : d.k = "vardef" /\ d.var.identifier = name).var.type

\* C8: _check_for_stmt fails unless the iterable is a list; in the body the
\* loop variable has the element type, shadowing an outer binding; after the
\* loop, whether the body checked or raised, every name resolves as before, so
\* a later reference to a loop variable without outer binding is undefined.
C8_ForScope ==
    [][ (phase = "statements" /\ Stepped) =>
          LET p == <<2, idx>>
              stmt == Current
              ev == NewEvents
          IN  /\ stmt.k = "for" =>
                    /\ symbol_table' = symbol_table
                    /\ (\A t \in TypesAt(ev, p \o <<1>>) : ~IsListType(t)) => phase' = "failed"
                    /\ \A t \in TypesAt(ev, p \o <<1>>) :
                          IF ~IsListType(t)
                          THEN err' = TypeCheckError("For loop requires list type", <<>>, <<>>)
                          ELSE \A j \in 1..Len(stmt.body) :
                                 /\ stmt.body[j] = ExprStmt(Id(stmt.identifier)) =>
                                       /\ TypesAt(ev, p \o <<2, j, 1>>) \subseteq {t.element_type}
                                       /\ phase' # "failed" =>
                                             TypesAt(ev, p \o <<2, j, 1>>) # {}
                                 /\ stmt.body[j]
                                       = ExprStmt(CallExpr(Id("print"), <<Id(stmt.identifier)>>)) =>
                                       /\ TypesAt(ev, p \o <<2, j, 1, 2, 1>>)
                                             \subseteq {t.element_type}
                                       /\ phase' # "failed" =>
                                             TypesAt(ev, p \o <<2, j, 1, 2, 1>>) # {}
              /\ (stmt.k = "expr" /\ idx > 1 /\ program.statements[idx - 1].k = "for") =>
                    LET v == program.statements[idx - 1].identifier IN
                    /\ (v \notin DeclaredNames(program)
                        /\ stmt.expr \in {Id(v), CallExpr(Id("print"), <<Id(v)>>)}) =>
                          /\ phase' = "failed"
                          /\ err' = TypeCheckError("Undefined variable", <<v>>, <<>>)
                    /\ (v \in DeclaredNames(program) /\ stmt.expr = Id(v)) =>
                          /\ phase' # "failed"
                          /\ TypesAt(ev, p \o <<1>>) = {DeclaredType(program, v)} ]_vars

(* for y in [1, 2, 3]: print(y) was checked with y an int, and the print(y)
   after the loop raised *)
C8_Witness ==
    /\ phase = "failed"
    /\ idx = 2
    /\ program.statements[1]
          = ForStmt("y", ListExpr(<<Lit("int"), Lit("int"), Lit("int")>>),
                    <<ExprStmt(CallExpr(Id("print"), <<Id("y")>>))>>)
    /\ program.statements[2] = ExprStmt(CallExpr(Id("print"), <<Id("y")>>))
    /\ TypesAt(trace, <<2, 1, 2, 1, 1, 2, 1>>) = {TInt}
    /\ err = TypeCheckError("Undefined variable", <<"y">>, <<>>)

\* C9: a program declaring z: [int] = [] and then using z[0] checks without
\* error, and z[0] is annotated with int.
C9_EmptyListInitialiser ==
    program = Program(<<VarDef("z", ListType(TInt), ListExpr(<<>>))>>,
                      <<ExprStmt(IndexExpr(Id("z"), Lit("int")))>>) =>
        /\ phase # "failed"
        /\ phase = "done" => TypesAt(trace, <<2, 1, 1>>) = {TInt}

(* the declared type of attribute m in class cname or the nearest ancestor
   declaring it, by the class definitions of the program; Null when there is
   none *)
RECURSIVE StaticAttribute(_, _, _, _)
StaticAttribute(prog, cname, m, n) ==
    IF n = 0 \/ DeclIndex(prog, cname) = 0 THEN Null
    ELSE LET c == prog.declarations[DeclIndex(prog, cname)]
             own == {j \in 1..Len(c.declarations) :
                        c.declarations[j].k = "vardef"
                        /\ c.declarations[j].var.identifier = m}
         IN  IF own # {} THEN c.declarations[MinOf(own)].var.type
             ELSE StaticAttribute(prog, c.superclass, m, n - 1)

(* the declared type of attribute m of a type, Null for other than classes *)
AttributeOf(prog, type, m) ==
    IF IsClassType(type)
    THEN StaticAttribute(prog, type.classname, m, Len(prog.declarations))
    ELSE Null

(* the member access <parameter>.m that is the first statement of a function
   whose node is at path p *)
AccessIn(func_def, p) ==
    IF /\ Len(func_def.statements) >= 1
       /\ func_def.statements[1].k = "expr"
       /\ func_def.statements[1].expr.k = "member"
       /\ func_def.statements[1].expr.object.k = "id"
    THEN {[path |-> p \o <<2, 1, 1>>, type |-> func_def.params[i].type,
           member |-> func_def.statements[1].expr.member] :
             i \in {j \in 1..Len(func_def.params) :
                       func_def.params[j].identifier
                           = func_def.statements[1].expr.object.name}}
    ELSE {}

(* the member accesses of the functions and methods of a program *)
MemberAccesses(prog) ==
    UNION {IF prog.declarations[i].k = "funcdef"
           THEN AccessIn(prog.declarations[i], <<1, i>>)
           ELSE IF prog.declarations[i].k = "classdef"
           THEN UNION {IF prog.declarations[i].declarations[j].k = "funcdef"
                       THEN AccessIn(prog.declarations[i].declarations[j], <<1, i, 1, j>>)
                       ELSE {} : j \in 1..Len(prog.declarations[i].declarations)}
           ELSE {} : i \in 1..Len(prog.declarations)}

\* C10: a member access e.m checks, with the declared type of m, iff the type
\* of e is a registered class that declares m itself or through an ancestor,
\* wherever the access occurs; otherwise checking fails naming m and the type.
C10_MemberAccess ==
    /\ phase = "done" =>
          \A a \in MemberAccesses(program) :
              /\ AttributeOf(program, a.type, a.member) # Null
              /\ TypesAt(trace, a.path) = {AttributeOf(program, a.type, a.member)}
    /\ (phase = "failed" /\ err.kind = "No attribute") =>
          \E a \in MemberAccesses(program) :
              /\ AttributeOf(program, a.type, a.member) = Null
              /\ err = TypeCheckError("No attribute", <<a.member>>, <<a.type>>)

(* the names bound by the parameters of a function definition *)
ParamNames(func_def) == {func_def.params[i].identifier : i \in 1..Len(func_def.params)}

(* method j of class i has as its first statement a bare identifier that names
   an attribute of the class and is no parameter and no top-level name *)
BareAttributeRef(prog, i, j) ==
    /\ prog.declarations[i].k = "classdef"
    /\ prog.declarations[i].declarations[j].k = "funcdef"
    /\ Len(prog.declarations[i].declarations[j].statements) >= 1
    /\ prog.declarations[i].declarations[j].statements[1].k = "expr"
    /\ prog.declarations[i].declarations[j].statements[1].expr.k = "id"
    /\ LET n == prog.declarations[i].declarations[j].statements[1].expr.name IN
       /\ AttributeOf(prog, ClassType(prog.declarations[i].name), n) # Null
       /\ n \notin ParamNames(prog.declarations[i].declarations[j])
       /\ n \notin DeclaredNames(prog)
       /\ ~DictHas(InitBuiltinSymbols, n)

\* C11: in a method body a bare identifier that names an attribute of the
\* enclosing class, and is no parameter, local or top-level name, does not
\* resolve: check_program fails with an undefined-variable error.
C11_AttributesNotInScope ==
    \A i \in 1..Len(program.declarations) :
        program.declarations[i].k = "classdef" =>
            \A j \in 1..Len(program.declarations[i].declarations) :
                BareAttributeRef(program, i, j) =>
                    /\ phase # "done"
                    /\ phase = "failed" =>
                          err = TypeCheckError("Undefined variable",
                                   <<program.declarations[i].declarations[j]
                                        .statements[1].expr.name>>, <<>>)

(* the paths of the expression nodes below and including an expression *)
RECURSIVE ExprPaths(_, _)
ExprPaths(e, p) ==
    {p} \cup
    (IF e.k = "bin" THEN ExprPaths(e.left, p \o <<1>>) \cup ExprPaths(e.right, p \o <<2>>)
     ELSE IF e.k = "un" THEN ExprPaths(e.operand, p \o <<1>>)
     ELSE IF e.k = "ifexpr"
          THEN ExprPaths(e.condition, p \o <<1>>) \cup ExprPaths(e.then_expr, p \o <<2>>)
               \cup ExprPaths(e.else_expr, p \o <<3>>)
     ELSE IF e.k = "listexpr"
          THEN UNION {ExprPaths(e.elements[i], p \o <<i>>) : i \in 1..Len(e.elements)}
     ELSE IF e.k = "index"
          THEN ExprPaths(e.list_expr, p \o <<1>>) \cup ExprPaths(e.index, p \o <<2>>)
     ELSE IF e.k = "member" THEN ExprPaths(e.object, p \o <<1>>)
     ELSE IF e.k = "mcall"
          THEN ExprPaths(e.method, p \o <<1>>)
               \cup UNION {ExprPaths(e.args[i], p \o <<2, i>>) : i \in 1..Len(e.args)}
     ELSE IF e.k = "call"
          THEN ExprPaths(e.function, p \o <<1>>)
               \cup UNION {ExprPaths(e.args[i], p \o <<2, i>>) : i \in 1..Len(e.args)}
     ELSE {})

(* the paths of the expression nodes of a statement *)
RECURSIVE StmtPaths(_, _)
StmtPaths(stmt, p) ==
    IF stmt.k = "expr" THEN ExprPaths(stmt.expr, p \o <<1>>)
    ELSE IF stmt.k = "assign"
         THEN ExprPaths(stmt.value, p \o <<0>>)
              \cup UNION {ExprPaths(stmt.targets[i], p \o <<i>>) : i \in 1..Len(stmt.targets)}
    ELSE IF stmt.k = "if"
         THEN ExprPaths(stmt.condition, p \o <<1>>)
              \cup UNION {StmtPaths(stmt.then_body[i], p \o <<2, i>>) :
                             i \in 1..Len(stmt.then_body)}
              \cup UNION {ExprPaths(stmt.elif_conditions[i], p \o <<3, i>>) :
                             i \in 1..Len(stmt.elif_conditions)}
              \cup UNION {UNION {StmtPaths(stmt.elif_bodies[i][j], p \o <<4, i, j>>) :
                                    j \in 1..Len(stmt.elif_bodies[i])} :
                             i \in 1..Len(stmt.elif_bodies)}
              \cup UNION {StmtPaths(stmt.else_body[i], p \o <<5, i>>) :
                             i \in 1..Len(stmt.else_body)}
    ELSE IF stmt.k \in {"while", "for"}
         THEN ExprPaths(IF stmt.k = "while" THEN stmt.condition ELSE stmt.iterable,
                        p \o <<1>>)
              \cup UNION {StmtPaths(stmt.body[i], p \o <<2, i>>) : i \in 1..Len(stmt.body)}
    ELSE IF stmt.k = "return" /\ stmt.value # Null THEN ExprPaths(stmt.value, p \o <<1>>)
    ELSE {}

(* the paths of the expression nodes of a declaration; the initialiser of a
   variable definition at p is the node p \o <<0>> *)
RECURSIVE DeclPaths(_, _)
DeclPaths(decl, p) ==
    IF decl.k = "vardef" THEN ExprPaths(decl.value, p \o <<0>>)
    ELSE IF decl.k = "funcdef"
         THEN UNION {DeclPaths(decl.declarations[i], p \o <<1, i>>) :
                        i \in 1..Len(decl.declarations)}
              \cup UNION {StmtPaths(decl.statements[i], p \o <<2, i>>) :
                             i \in 1..Len(decl.statements)}
    ELSE IF decl.k = "classdef"
         THEN UNION {DeclPaths(decl.declarations[i], p \o <<1, i>>) :
                        i \in 1..Len(decl.declarations)}
    ELSE {}

(* every expression node reachable in a program *)
ProgramPaths(prog) ==
    UNION {DeclPaths(prog.declarations[i], <<1, i>>) : i \in 1..Len(prog.declarations)}
    \cup UNION {StmtPaths(prog.statements[i], <<2, i>>) : i \in 1..Len(prog.statements)}

\* C12: after check_program has returned, every expression node reachable in
\* the program, the member node of a method call and the initialiser of a
\* variable definition included, has had its inferred_type set.
C12_TreeAnnotated ==
    phase = "done" => \A path \in ProgramPaths(program) : TypesAt(trace, path) # {}

\* C13: a compilation started after another one on the same ChocoPyCompiler
\* begins with the registry, the function table and the symbol table of a new
\* type checker, and has the type-check outcome the source has when compiled
\* first on a new ChocoPyCompiler.
C13_FreshCompilation ==
    compiler.runs >= 2 =>
        /\ phase = "lex" =>
              /\ classes = InitBuiltinClasses
              /\ functions = {}
              /\ symbol_table = <<InitBuiltinSymbols>>
        /\ (compiler.lexes /\ ~compiler.generated /\ phase \in {"done", "failed"}) =>
              ((phase = "done")
                  <=> (ParseProgram(program) = NoErr /\ CheckProgramAccepts(program)))

(* the place of a phase in the pipeline of compile_file *)
PhaseRank(ph) ==
    IF ph = "lex" THEN 1 ELSE IF ph = "parse" THEN 2 ELSE IF ph = "declare" THEN 3
    ELSE IF ph = "check" THEN 4 ELSE IF ph = "statements" THEN 5
    ELSE IF ph = "done" THEN 6 ELSE IF ph = "generated" THEN 7
    ELSE IF ph = "written" THEN 8 ELSE 0

\* C14: the phases run in the order lexing, parsing, type checking, code
\* generation, each only after the one before succeeded; the generator is
\* invoked only on a program check_program returned for; the output file is
\* written only after all four succeeded, and never when a phase raised.
C14_PhasesInOrder ==
    [][ /\ (phase' # phase /\ phase' \notin {"failed", "lex"}) =>
              PhaseRank(phase') > PhaseRank(phase)
        /\ phase' = "lex" => compiler'.runs = compiler.runs + 1
        /\ (phase' = "parse" /\ phase # "parse") => (phase = "lex" /\ compiler.lexes)
        /\ (phase = "parse" /\ phase' \notin {"parse", "failed"}) =>
              (PhaseRank(phase') \in 3..6 /\ ParseProgram(program) = NoErr)
        /\ (compiler'.generated /\ ~compiler.generated) =>
              (phase = "done" /\ err = NoErr /\ compiler'.runs = compiler.runs)
        /\ (phase' = "generated" /\ phase # "generated") => phase = "done"
        /\ (compiler'.written /\ ~compiler.written) =>
              /\ phase = "generated" /\ phase' = "written"
              /\ compiler.generated /\ compiler.lexes /\ ParseProgram(program) = NoErr
        /\ phase' = "failed" => ~compiler'.written ]_vars

(* compile_file ran lexing, parsing and type checking, the generator raised,
   and nothing was written *)
C14_Witness ==
    /\ compiler.caller = "compile_file"
    /\ phase = "failed"
    /\ err = GeneratorError
    /\ compiler.generated
    /\ ~compiler.written

(* the type the operator table of the language gives a binary operation, Null
   where it gives none *)
BinaryTable(op, l, r) ==
    IF op \in {"+", "-", "*", "//", "%"}
    THEN IF IsSubtype(classes, l, TInt) /\ IsSubtype(classes, r, TInt) THEN TInt ELSE Null
    ELSE IF op \in {"<", "<=", ">", ">="}
    THEN IF IsSubtype(classes, l, TInt) /\ IsSubtype(classes, r, TInt) THEN TBool ELSE Null
    ELSE IF op \in {"and", "or"}
    THEN IF IsSubtype(classes, l, TBool) /\ IsSubtype(classes, r, TBool) THEN TBool ELSE Null
    ELSE IF op \in {"==", "!=", "is"} THEN TBool
    ELSE Null

(* the same for a unary operation *)
UnaryTable(op, t) ==
    IF op = "-" THEN IF IsSubtype(classes, t, TInt) THEN TInt ELSE Null
    ELSE IF op = "not" THEN IF IsSubtype(classes, t, TBool) THEN TBool ELSE Null
    ELSE Null

(* the type the tables give the operation that is the body of f *)
OperationTable(f) ==
    IF f.statements[1].expr.k = "bin"
    THEN BinaryTable(f.statements[1].expr.operator, f.params[1].type, f.params[2].type)
    ELSE UnaryTable(f.statements[1].expr.operator, f.params[1].type)

RECURSIVE ConditionPaths(_, _)
ConditionPaths(stmt, p) ==
    IF stmt.k = "if"
    THEN {p \o <<1>>} \cup {p \o <<3, i>> : i \in 1..Len(stmt.elif_conditions)}
         \cup UNION {ConditionPaths(stmt.then_body[i], p \o <<2, i>>) :
                        i \in 1..Len(stmt.then_body)}
         \cup UNION {UNION {ConditionPaths(stmt.elif_bodies[i][j], p \o <<4, i, j>>) :
                               j \in 1..Len(stmt.elif_bodies[i])} :
                        i \in 1..Len(stmt.elif_bodies)}
         \cup UNION {ConditionPaths(stmt.else_body[i], p \o <<5, i>>) :
                        i \in 1..Len(stmt.else_body)}
    ELSE IF stmt.k = "while"
    THEN {p \o <<1>>}
         \cup UNION {ConditionPaths(stmt.body[i], p \o <<2, i>>) : i \in 1..Len(stmt.body)}
    ELSE IF stmt.k = "for"
    THEN UNION {ConditionPaths(stmt.body[i], p \o <<2, i>>) : i \in 1..Len(stmt.body)}
    ELSE {}

(* the conditions of the top-level statements of a program *)
ProgramConditions(prog) ==
    UNION {ConditionPaths(prog.statements[i], <<2, i>>) : i \in 1..Len(prog.statements)}

\* C16: check_program returns only if the condition of every if statement,
\* elif branch and while statement has a type that is a subtype of bool, and a
\* statement all of whose conditions have such a type is accepted; a failure
\* is a TypeCheckError.
C16_ConditionsBoolean ==
    /\ phase = "done" =>
          \A path \in ProgramConditions(program) :
              /\ TypesAt(trace, path) # {}
              /\ \A t \in TypesAt(trace, path) : IsSubtype(classes, t, TBool)
    /\ (phase = "failed" /\ program \in ConditionPrograms) =>
          /\ err.exc = "TypeCheckError"
          /\ err.kind \in {"If condition must be boolean", "Elif condition must be boolean",
                           "While condition must be boolean"}
          /\ \E path \in ProgramConditions(program) :
                \E t \in TypesAt(trace, path) : ~IsSubtype(classes, t, TBool)

(* the if condition and the first elif condition were bool, the second elif
   condition was an int, and the statement raised *)
C16_Witness ==
    /\ phase = "failed"
    /\ program \in ConditionPrograms
    /\ program.statements[1].k = "if"
    /\ program.statements[1].elif_conditions = <<Lit("bool"), Lit("int")>>
    /\ TypesAt(trace, <<2, 1, 1>>) = {TBool}
    /\ TypesAt(trace, <<2, 1, 3, 2>>) = {TInt}
    /\ err.kind = "Elif condition must be boolean"

(* the proper ancestors of the classes of IfExprPrograms, written out *)
DeclaredAncestors(name) ==
    CASE name = "object" -> {}
      [] name = "int" -> {"object"}
      [] name = "bool" -> {"int", "object"}
      [] name = "str" -> {"object"}
      [] name = "A" -> {"object"}
      [] name = "B" -> {"A", "object"}
      [] name = "C" -> {"A", "object"}
      [] OTHER -> {}

(* t1 is a strict subtype of t2: both are classes and t2 is an ancestor *)
StrictlyBelow(t1, t2) ==
    /\ t1.k = "class"
    /\ t2.k = "class"
    /\ t2.classname \in DeclaredAncestors(t1.classname)

(* the result type the conditional expression is specified to have *)
SpecifiedJoin(a, b) ==
    IF a = b THEN a
    ELSE IF StrictlyBelow(a, b) THEN b
    ELSE IF StrictlyBelow(b, a) THEN a
    ELSE TObject

\* C17: a conditional expression a if cond else b fails to check unless the
\* type of cond is a subtype of bool; otherwise it is annotated with a's type
\* when the two branch types are equal, else with b's type when a's is a
\* subtype of b's, else with a's type when b's is a subtype of a's, else with
\* object (two sibling classes and two different list types included).
C17_ConditionalJoin ==
    (program \in IfExprPrograms /\ phase \in {"done", "failed"}) =>
        LET params == program.declarations[4].params
        IN  IF params[3].type = TBool
            THEN /\ phase = "done"
                 /\ TypesAt(trace, <<1, 4, 2, 1, 1>>)
                       = {SpecifiedJoin(params[1].type, params[2].type)}
            ELSE /\ phase = "failed"
                 /\ err.exc = "TypeCheckError"
                 /\ err.kind = "Conditional expression condition must be boolean"
                 /\ TypesAt(trace, <<1, 4, 2, 1, 1>>) = {}

(* the branches are the siblings B and C under A, and the expression is
   annotated object *)
C17_Witness ==
    /\ program \in IfExprPrograms
    /\ phase = "done"
    /\ program.declarations[4].params[1].type = ClassType("B")
    /\ program.declarations[4].params[2].type = ClassType("C")
    /\ TypesAt(trace, <<1, 4, 2, 1, 1, 2>>) = {ClassType("B")}
    /\ TypesAt(trace, <<1, 4, 2, 1, 1, 3>>) = {ClassType("C")}
    /\ TypesAt(trace, <<1, 4, 2, 1, 1>>) = {TObject}

(* the type of an element of ElementExprs *)
ElementType(e) ==
    IF e.k = "listexpr" THEN ListType(TInt)
    ELSE CASE e.lit = "int" -> TInt
           [] e.lit = "bool" -> TBool
           [] e.lit = "str" -> TStr
           [] e.lit = "none" -> TNone

(* the running element type after elements i.., starting from running *)
RECURSIVE RunningType(_, _, _)
RunningType(es, i, running) ==
    IF i > Len(es) THEN running
    ELSE RunningType(es, i + 1,
             IF ElementType(es[i]) = running \/ StrictlyBelow(ElementType(es[i]), running)
             THEN running ELSE TObject)

(* the type a list literal is specified to have *)
SpecifiedListType(es) ==
    IF es = <<>> THEN ListType(TObject)
    ELSE ListType(RunningType(es, 2, ElementType(es[1])))

\* C18: the empty list literal has type [object]; a non-empty one starts from
\* its first element's type and replaces the running element type by object
\* as soon as a later element is not assignable to it, so [1, True] is [int]
\* and [True, 1] is [object]; checking a list literal of well-typed elements
\* never fails.
C18_ListLiteral ==
    (program \in ListLiteralPrograms /\ phase \in {"done", "failed"}) =>
        LET es == program.statements[1].expr.elements
        IN  /\ phase = "done"
            /\ TypesAt(trace, <<2, 1, 1>>) = {SpecifiedListType(es)}
            /\ es = <<>> => TypesAt(trace, <<2, 1, 1>>) = {ListType(TObject)}
            /\ es = <<Lit("int"), Lit("bool")>> =>
                  TypesAt(trace, <<2, 1, 1>>) = {ListType(TInt)}
            /\ es = <<Lit("bool"), Lit("int")>> =>
                  TypesAt(trace, <<2, 1, 1>>) = {ListType(TObject)}

(* [True, 1, True] was checked: the running type left bool at the second
   element and did not come back *)
C18_Witness ==
    /\ program \in ListLiteralPrograms
    /\ phase = "done"
    /\ program.statements[1].expr.elements = <<Lit("bool"), Lit("int"), Lit("bool")>>
    /\ TypesAt(trace, <<2, 1, 1, 3>>) = {TBool}
    /\ TypesAt(trace, <<2, 1, 1>>) = {ListType(TObject)}

(* the annotation a call of CallPrograms is specified to get *)
SpecifiedCallType(callee) ==
    IF callee.k # "id" THEN TObject
    ELSE CASE callee.name = "len" -> TInt
           [] callee.name = "print" -> TNone
           [] callee.name = "input" -> TStr
           [] callee.name = "f" -> TInt
           [] callee.name = "g" -> TNone
           [] callee.name = "h" -> TStr
           [] OTHER -> TObject

\* C19: a call of len, print or input is annotated int, None or str whatever
\* its arguments; a call of a registered user function is annotated with its
\* declared return type (None when unannotated; f(5) for def f(a: int) -> int
\* is int); any other call whose callee checks is annotated object; every
\* argument is checked, so a call with a failing argument fails.
C19_CallTyping ==
    (program \in CallPrograms /\ phase \in {"done", "failed"}) =>
        LET call == program.statements[1].expr
            fails == \/ call.function = Id("u")
                     \/ \E i \in 1..Len(call.args) : call.args[i] = Id("u")
        IN  IF fails
            THEN /\ phase = "failed"
                 /\ err.exc = "TypeCheckError"
                 /\ err.kind = "Undefined variable"
                 /\ TypesAt(trace, <<2, 1, 1>>) = {}
            ELSE /\ phase = "done"
                 /\ TypesAt(trace, <<2, 1, 1>>) = {SpecifiedCallType(call.function)}
                 /\ \A i \in 1..Len(call.args) : TypesAt(trace, <<2, 1, 1, 2, i>>) # {}
                 /\ (call.function = Id("f") /\ call.args = <<Lit("int")>>) =>
                       TypesAt(trace, <<2, 1, 1>>) = {TInt}

(* f(5) was checked after def f(a: int) -> int and annotated int *)
C19_Witness ==
    /\ program \in CallPrograms
    /\ phase = "done"
    /\ program.statements[1].expr = CallExpr(Id("f"), <<Lit("int")>>)
    /\ DictHas(functions, "f")
    /\ TypesAt(trace, <<2, 1, 1, 2, 1>>) = {TInt}
    /\ TypesAt(trace, <<2, 1, 1>>) = {TInt}

\* C20: a method call is annotated object whatever the method's declared
\* return type, after its receiver and every argument were checked: a receiver
\* or an argument that does not check makes the call fail, and neither the
\* number nor the types of the arguments are held against the method.
C20_MethodCallObject ==
    (program \in MethodCallPrograms /\ phase \in {"done", "failed"}) =>
        LET call == program.declarations[2].statements[1].expr
            at == <<1, 2, 2, 1, 1>>
            fails == \/ call.method.object = Id("u")
                     \/ \E i \in 1..Len(call.args) : call.args[i] = Id("u")
        IN  IF fails
            THEN /\ phase = "failed"
                 /\ err.exc = "TypeCheckError"
                 /\ err.kind = "Undefined variable"
                 /\ TypesAt(trace, at) = {}
            ELSE /\ phase = "done"
                 /\ TypesAt(trace, at) = {TObject}
                 /\ TypesAt(trace, at \o <<1, 1>>) # {}
                 /\ \A i \in 1..Len(call.args) : TypesAt(trace, at \o <<2, i>>) # {}

(* p.m(1, "s") was checked with p: A and m(self: A) -> int registered in A:
   two arguments more than m takes, annotated object *)
C20_Witness ==
    /\ program \in MethodCallPrograms
    /\ phase = "done"
    /\ program.declarations[2].statements[1].expr
          = MethodCallExpr(MemberExpr(Id("p"), "m"), <<Lit("int"), Lit("str")>>)
    /\ DictHas(DictGet(classes, "A").methods, "m")
    /\ DictGet(DictGet(classes, "A").methods, "m").return_type = TInt
    /\ TypesAt(trace, <<1, 2, 2, 1, 1, 1, 1>>) = {ClassType("A")}
    /\ TypesAt(trace, <<1, 2, 2, 1, 1>>) = {TObject}

\* C21: a method call whose method is not found by get_method on the class of
\* the receiver's type, or whose receiver's type is not a registered class,
\* raises a TypeCheckError; so check_program returns only if every method
\* call resolves.
C21_UndefinedMethod ==
    (program \in MethodCallPrograms /\ phase = "done") =>
        LET call == program.declarations[2].statements[1].expr
        IN  \A t \in TypesAt(trace, <<1, 2, 2, 1, 1, 1, 1>>) :
                /\ t.k = "class"
                /\ DictHas(classes, t.classname)
                /\ GetMethod(classes, t.classname, call.method.member) # Null

\* C22: check_program, given the tree of a function or method definition
\* with no statements, raises a TypeCheckError.
C22_EmptyBodyRejected ==
    (program \in EmptyBodyPrograms /\ phase \in {"done", "failed"}
        /\ err.exc # "ParseError") =>
        phase = "failed" /\ err.exc = "TypeCheckError"

(* the violations of a program of FailFastPrograms in the order check_program
   meets them: the declaration pass (y, then A), the checking pass (the body
   of f), the statements *)
Violations(prog) ==
    <<prog.declarations[2].value.lit = "str",
      prog.declarations[3].superclass = "Z",
      prog.declarations[1].statements[1].expr.name = "u1",
      prog.statements[1].expr.name = "u4",
      prog.statements[2].condition.lit = "int">>

(* the first violation met, 0 when there is none *)
FirstViolation(prog) ==
    IF \A i \in 1..5 : ~Violations(prog)[i] THEN 0
    ELSE MinOf({i \in 1..5 : Violations(prog)[i]})

(* the error of each violation *)
ViolationError(i) ==
    CASE i = 1 -> TypeCheckError("Cannot assign to variable", <<>>, <<TStr, TInt>>)
      [] i = 2 -> TypeCheckError("Undefined superclass", <<"Z">>, <<>>)
      [] i = 3 -> TypeCheckError("Undefined variable", <<"u1">>, <<>>)
      [] i = 4 -> TypeCheckError("Undefined variable", <<"u4">>, <<>>)
      [] i = 5 -> TypeCheckError("If condition must be boolean", <<>>, <<>>)

(* the expression nodes annotated before violation i is met (0: all) *)
AnnotatedBefore(i) ==
    CASE i \in {1, 2, 3} -> {}
      [] i = 4 -> {<<1, 1, 2, 1, 1>>}
      [] i = 5 -> {<<1, 1, 2, 1, 1>>, <<2, 1, 1>>, <<2, 2, 1>>}
      [] i = 0 -> {<<1, 1, 2, 1, 1>>, <<2, 1, 1>>, <<2, 2, 1>>, <<2, 2, 2, 1, 1>>, <<2, 3, 1>>}

\* C23: check_program raises the TypeCheckError of the first rule violation
\* in the order declaration pass, checking pass, top-level statements, and
\* after it no later declaration is registered and no later expression node
\* is annotated; it returns only when there is no violation.
C23_FailFast ==
    (program \in FailFastPrograms /\ phase \in {"done", "failed"}) =>
        LET first == FirstViolation(program)
        IN  /\ (phase = "done") <=> (first = 0)
            /\ phase = "done" => err = NoErr
            /\ phase = "failed" => err = ViolationError(first)
            /\ {trace[i].path : i \in 1..Len(trace)} = AnnotatedBefore(first)
            /\ first = 1 => Lookup(symbol_table, "y") = Null /\ ~DictHas(classes, "A")
            /\ first = 2 => ~DictHas(classes, "A")

(* the body of f and the if condition both break a rule, the declarations do
   not: the checking pass raised for f and nothing was annotated *)
C23_Witness ==
    /\ program \in FailFastPrograms
    /\ Violations(program) = <<FALSE, FALSE, TRUE, FALSE, TRUE>>
    /\ phase = "failed"
    /\ err = TypeCheckError("Undefined variable", <<"u1">>, <<>>)
    /\ DictHas(classes, "A")
    /\ trace = <<>>

\* C24: for a registered user class C the definition v: C = None checks
\* successfully and binds v to type C.
C24_NoneInitialiser ==
    (program \in NoneInitPrograms /\ phase \in {"done", "failed"}) =>
        /\ phase = "done"
        /\ Lookup(symbol_table, "v") = program.declarations[3].var.type

\* C25: when the checking of a class body, a function body or a for-loop body
\* has ended, normally or by a TypeCheckError, the current symbol table is the
\* one that was current before it; so between the iterations of check_program
\* and after it returned or raised, the current table is the root table and
\* current_class, current_function and return_type are unset.
C25_ScopesRestored ==
    /\ Len(symbol_table) = 1
    /\ current_class = ""
    /\ current_function = ""
    /\ return_type = Null

(* following the superclass references from class c reaches object within
   fuel steps, through registered classes only *)
RECURSIVE ReachesObject(_, _, _)
ReachesObject(cls, c, fuel) ==
    IF c = "object" THEN TRUE
    ELSE IF fuel = 0 \/ ~DictHas(cls, c) THEN FALSE
    ELSE ReachesObject(cls, SuperName(cls, c), fuel - 1)

\* C26: after any sequence of _declare_class calls, successful or failed,
\* the classes form a tree rooted at object: object has no superclass, every
\* other registered class has one registered superclass, and the superclass
\* references from any class reach object without revisiting a class, so the
\* walks of _is_subtype, get_method and get_attribute end.
C26_HierarchyIsTree ==
    /\ DictHas(classes, "object")
    /\ SuperName(classes, "object") = ""
    /\ \A c \in DictKeys(classes) \ {"object"} :
          /\ SuperName(classes, c) # ""
          /\ DictHas(classes, SuperName(classes, c))
          /\ c \notin ProperAncestors(classes, c)
          /\ ReachesObject(classes, c, Cardinality(DictKeys(classes)) - 1)
          /\ ~WalkReaches(classes, c, "")
          /\ GetMethod(classes, c, "m") = Null

(* two user classes are registered, one below the other, and the last call
   was refused *)
C26_Witness ==
    /\ \E a \in UserClassNames, b \in UserClassNames :
          /\ DictHas(classes, a) /\ DictHas(classes, b)
          /\ SuperName(classes, b) = a
          /\ SuperName(classes, a) \in BuiltinClassNames
    /\ last # NoCall
    /\ ~last.ok

\* C27: the source t1 = t2 = ... = tn = value (n >= 1) parses into the one
\* statement AssignStmt([t1, ..., tn], value).
C27_ChainedAssignment ==
    (program \in AssignPrograms /\ Len(program.statements[1].targets) >= 1
        /\ phase \in {"done", "failed"}) =>
        LET stmt == program.statements[1]
            parsed == ParseAssignmentLine(stmt.targets \o <<stmt.value>>)
        IN  /\ parsed.err = NoErr
            /\ parsed.stmt = AssignStmt(stmt.targets, stmt.value)
            /\ err.exc # "ParseError"

\* C28: a function defined inside another function can be called by name
\* from the statements of the enclosing function: the call checks and is
\* annotated with the nested function's declared return type.
C28_NestedFunctionCall ==
    (program \in NestedCallPrograms /\ phase \in {"done", "failed"}) =>
        /\ phase = "done"
        /\ TypesAt(trace, <<1, 1, 2, 1, 1>>)
              = {program.declarations[1].declarations[1].return_type}

\* C29: a call whose callee is the name of a registered class checks, and
\* its type is assignable to a variable declared with that class or with one
\* of its ancestors.
C29_Construction ==
    (program \in ConstructionPrograms /\ phase \in {"done", "failed"}) =>
        /\ phase = "done"
        /\ \A t \in TypesAt(trace, <<1, 3, 2, 1, 0>>) :
              IsAssignable(classes, t, program.declarations[3].params[1].type)

(* how many tokens of a type a token list holds *)
CountOf(tokens, type) == Cardinality({i \in 1..Len(tokens) : tokens[i] = type})

\* C30: while tokenize runs, indent_stack is strictly increasing and starts
\* with 0, and the INDENT tokens emitted so far exceed the DEDENT tokens by
\* len(indent_stack) - 1; when tokenize returns, INDENT and DEDENT tokens are
\* equally many and the token list ends with its only EOF token.
C30_IndentStack ==
    lexer.status # "idle" =>
        /\ lexer.indent_stack[1] = 0
        /\ \A i \in 1..(Len(lexer.indent_stack) - 1) :
              lexer.indent_stack[i] < lexer.indent_stack[i + 1]
        /\ CountOf(lexer.tokens, "INDENT") - CountOf(lexer.tokens, "DEDENT")
              = Len(lexer.indent_stack) - 1
        /\ lexer.status # "returned" => CountOf(lexer.tokens, "EOF") = 0
        /\ lexer.status = "returned" =>
              /\ CountOf(lexer.tokens, "INDENT") = CountOf(lexer.tokens, "DEDENT")
              /\ lexer.tokens[Len(lexer.tokens)] = "EOF"
              /\ CountOf(lexer.tokens, "EOF") = 1

(* tokenize returned on a source that opened two indentation levels and
   ended inside them: both were closed before EOF *)
C30_Witness ==
    /\ lexer.status = "returned"
    /\ CountOf(lexer.tokens, "INDENT") = 2
    /\ Len(lexer.tokens) >= 3
    /\ SubSeq(lexer.tokens, Len(lexer.tokens) - 2, Len(lexer.tokens))
          = <<"DEDENT", "DEDENT", "EOF">>

====
